---------------------------- MODULE Spec2Model ----------------------------
(***************************************************************************)
(* Model of the hybrid recommendation engine of vault-architect            *)
(* (src/src/services/LLMCoordinator.ts): confidence fusion, cosine         *)
(* similarity, parsing of the judgment reply and the recommendFolder       *)
(* pipeline; and of its embedding lookups                                  *)
(* (src/src/services/SmartConnectionsService.ts): the .ajson store parser, *)
(* the cache of parsed stores and the plugin-backed lookup.                *)
(*                                                                         *)
(* JavaScript numbers are modelled as exact reals of the form              *)
(*     (a + b / sqrt(r)) / d      a, b integers, r >= 1, d >= 1            *)
(* kept in canonical form (r square-free, gcd(a,b,d) = 1, b = 0 => r = 1), *)
(* so that structural equality is equality of the real numbers.  Cosine    *)
(* similarities of integer vectors and their blends with rational          *)
(* confidences and coherences are all of this form.                        *)
(***************************************************************************)
EXTENDS Integers, Sequences, FiniteSets, TLC

VARIABLES
    blendCall,          \* harness around blendConfidenceScores (SpecBlend)
    pc,                 \* position of the recommendFolder request
    folderProfiles,     \* argument folderProfiles: FolderProfile[]
    currentFileEmbedding, \* argument currentFileEmbedding?: number[]
    adapterOutcome,     \* how openaiAdapter.call will settle
    content,            \* response.content, the judgment reply text
    bare,               \* the JSON text the reply was built around
    parsed,             \* the value parseRecommendationResponse returned
    result,             \* the RecommendationResult of the request
    error,              \* the error the request ended with
    adapterCalls,       \* calls made to openaiAdapter.call
    scPlugin,           \* what app.plugins.getPlugin('smart-connections') gives
    multiFolder,        \* how vault.adapter.list('.smart-env/multi') settles
    disk,               \* the files of .smart-env/multi, by name
    isAvailable,        \* SmartConnectionsService.isAvailable
    ajsonCache,         \* SmartConnectionsService.ajsonCache
    elapsed,            \* cached stores older than the freshness window
    reads,              \* calls made to vault.adapter.read
    lookup,             \* the last embedding lookup and what it returned
    batch,              \* one classifyFolder run of the plugin
    folderCentroids,    \* SmartConnectionsService.folderCentroids
    tasks,              \* the calls of calculateFolderCentroid in progress
    centroidCalls,      \* calls made to calculateFolderCentroid
    tainted,            \* folders whose cached centroid was written by a
                        \* call that clearCache had overtaken
    invalidated,        \* folders not requested since the last clearCache
    coherenceCall       \* the last calculateCoherence call and its value

\* The state of one recommendFolder request and of the blend harness.
requestVars == << blendCall, pc, folderProfiles, currentFileEmbedding,
                 adapterOutcome, content, bare, parsed, result, error,
                 adapterCalls >>

\* The state of the embedding service and of its environment.
storeVars == << scPlugin, multiFolder, disk, isAvailable, ajsonCache,
               elapsed, reads, lookup >>

\* The state of one batch classification.
batchVars == << batch >>

\* The centroid cache of the embedding service and the calls that use it.
centroidVars ==
    << folderCentroids, tasks, centroidCalls, tainted, invalidated,
       coherenceCall >>

vars == << blendCall, pc, folderProfiles, currentFileEmbedding,
           adapterOutcome, content, bare, parsed, result, error,
           adapterCalls, scPlugin, multiFolder, disk, isAvailable,
           ajsonCache, elapsed, reads, lookup, batch, folderCentroids, tasks,
           centroidCalls, tainted, invalidated, coherenceCall >>

-----------------------------------------------------------------------------
(* Exact arithmetic on numbers (a + b/sqrt(r))/d                           *)

Abs(n) == IF n < 0 THEN -n ELSE n

RECURSIVE GCD(_, _)
GCD(m, n) == IF n = 0 THEN m ELSE GCD(n, m % n)

\* Largest s with s*s dividing r.
SquarePart(r) == CHOOSE s \in 1..r :
                    /\ r % (s * s) = 0
                    /\ \A t \in (s + 1)..r : r % (t * t) # 0

Real(a, b, r, d) ==
    LET s  == SquarePart(r)
        r1 == r \div (s * s)
        a1 == a * s
        d1 == d * s
        a2 == IF r1 = 1 THEN a1 + b ELSE a1
        b2 == IF r1 = 1 THEN 0 ELSE b
        g  == GCD(GCD(Abs(a2), Abs(b2)), d1)
    IN  [a |-> a2 \div g, b |-> b2 \div g,
         r |-> IF b2 = 0 THEN 1 ELSE r1, d |-> d1 \div g]

Int2Real(n) == [a |-> n, b |-> 0, r |-> 1, d |-> 1]
Rat(n, d) == Real(n, 0, 1, d)

IsRational(x) == x.b = 0

\* x + y; the surd parts must be compatible (one rational, or equal radicands).
RAdd(x, y) ==
    LET r == IF x.b # 0 THEN x.r ELSE y.r
    IN  Real(x.a * y.d + y.a * x.d, x.b * y.d + y.b * x.d, r, x.d * y.d)

RNeg(x) == [x EXCEPT !.a = -x.a, !.b = -x.b]
RSub(x, y) == RAdd(x, RNeg(y))

\* x * y where at least one factor is rational.
RMul(x, y) ==
    IF x.b = 0
    THEN Real(x.a * y.a, x.a * y.b, y.r, x.d * y.d)
    ELSE Real(x.a * y.a, x.b * y.a, x.r, x.d * y.d)

\* x / n for a positive integer n.
RDivInt(x, n) == Real(x.a, x.b, x.r, x.d * n)

\* Sign of a + b/sqrt(r): -1, 0 or 1.
RSign(x) ==
    LET g == GCD(Abs(x.a), Abs(x.b))
        a == IF g = 0 THEN 0 ELSE x.a \div g
        b == IF g = 0 THEN 0 ELSE x.b \div g
    IN  CASE b = 0 -> (IF a > 0 THEN 1 ELSE IF a < 0 THEN -1 ELSE 0)
          [] a = 0 -> (IF b > 0 THEN 1 ELSE -1)
          [] a > 0 /\ b > 0 -> 1
          [] a < 0 /\ b < 0 -> -1
          [] a > 0 /\ b < 0 -> (IF a * a * x.r > b * b THEN 1 ELSE -1)
          [] a < 0 /\ b > 0 -> (IF b * b > a * a * x.r THEN 1 ELSE -1)

RLess(x, y) == RSign(RSub(x, y)) < 0
RLeq(x, y) == RSign(RSub(x, y)) <= 0

MathMax(x, y) == IF RLess(x, y) THEN y ELSE x
MathMin(x, y) == IF RLess(y, x) THEN y ELSE x

\* Largest integer n in lo..hi with n <= x, by bisection (lo <= x < hi + 1).
RECURSIVE FloorIn(_, _, _)
FloorIn(x, lo, hi) ==
    IF lo = hi THEN lo
    ELSE LET mid == (lo + hi + 1) \div 2
         IN  IF RLeq(Int2Real(mid), x) THEN FloorIn(x, mid, hi)
                                       ELSE FloorIn(x, lo, mid - 1)

RFloor(x) ==
    LET base == x.a \div x.d
        span == (Abs(x.b) \div x.d) + 1
    IN  FloorIn(x, base - span - 1, base + span + 1)

\* Math.round: nearest integer, ties towards +infinity.
MathRound(x) == RFloor(RAdd(x, Rat(1, 2)))


-----------------------------------------------------------------------------
(* Score fusion: LLMCoordinator.blendConfidenceScores                      *)

Zero == Int2Real(0)
One == Int2Real(1)

\* The blend without the final clamp (what a missing Math.max/Math.min gives).
blendConfidenceScores_unclamped(llmConfidence, similarity, coherence) ==
    LET embedWeight == coherence
        llmWeight   == RSub(One, coherence)
    IN  RAdd(RMul(llmConfidence, llmWeight), RMul(similarity, embedWeight))

\* The blend with the two weights exchanged.
blendConfidenceScores_swapped(llmConfidence, similarity, coherence) ==
    LET embedWeight == RSub(One, coherence)
        llmWeight   == coherence
        blended     == RAdd(RMul(llmConfidence, llmWeight),
                            RMul(similarity, embedWeight))
    IN  MathMax(Zero, MathMin(One, blended))

blendConfidenceScores(llmConfidence, similarity, coherence) ==
    LET embedWeight == coherence
        llmWeight   == RSub(One, coherence)
        blended     == RAdd(RMul(llmConfidence, llmWeight),
                            RMul(similarity, embedWeight))
    IN  MathMax(Zero, MathMin(One, blended))

-----------------------------------------------------------------------------
(* SpecBlend: blendConfidenceScores applied to inputs drawn from grids.    *)

GridDen == 4

UnitGrid == { Rat(k, GridDen) : k \in 0..GridDen }
             \cup { Rat(1, 2), Rat(7, 10), Rat(9, 10) }

\* Similarities: the grid and its negatives, and the irrational cosines
\* 1/sqrt(2) and -1/sqrt(2).
SimilarityGrid == UnitGrid \cup { RNeg(x) : x \in UnitGrid }
                   \cup { Real(0, 1, 2, 1), Real(0, -1, 2, 1) }

NoBlendCall == [phase |-> "idle", llmConfidence |-> Zero, similarity |-> Zero,
                coherence |-> Zero, out |-> Zero,
                prevCoherence |-> Zero, prevOut |-> Zero]

BlendInit ==
    \E j \in UnitGrid, s \in SimilarityGrid, c \in UnitGrid :
        blendCall = [phase |-> "input", llmConfidence |-> j, similarity |-> s,
                     coherence |-> c, out |-> Zero,
                     prevCoherence |-> Zero, prevOut |-> Zero]

\* First call with the drawn inputs.
BlendApply ==
    /\ blendCall.phase = "input"
    /\ blendCall' = [blendCall EXCEPT
           !.phase = "applied",
           !.out = blendConfidenceScores(blendCall.llmConfidence,
                                         blendCall.similarity,
                                         blendCall.coherence)]

\* A second call with the same judgment confidence and similarity and another
\* coherence; the first call's coherence and result are kept for comparison.
BlendAgain ==
    /\ blendCall.phase = "applied"
    /\ \E c \in UnitGrid :
         blendCall' = [blendCall EXCEPT
           !.phase = "again",
           !.prevCoherence = blendCall.coherence,
           !.prevOut = blendCall.out,
           !.coherence = c,
           !.out = blendConfidenceScores(blendCall.llmConfidence,
                                         blendCall.similarity, c)]

-----------------------------------------------------------------------------
(* JavaScript values.  Each type has its own payload field, so two values   *)
(* of different types are different records.                               *)

JsUndefined == [t |-> "undefined"]
JsNull == [t |-> "null"]
JsNumber(x) == [t |-> "number", num |-> x]
JsString(s) == [t |-> "string", str |-> s]
JsBoolean(b) == [t |-> "boolean", bool |-> b]
JsArray(xs) == [t |-> "array", arr |-> xs]
\* An object is the sequence of its <<key, value>> members in source order.
JsObject(ms) == [t |-> "object", obj |-> ms]

\* ToBoolean, as used by !, || and ?: .
Truthy(v) ==
    CASE v.t = "undefined" -> FALSE
      [] v.t = "null"      -> FALSE
      [] v.t = "number"    -> v.num # Zero
      [] v.t = "string"    -> v.str # << >>
      [] v.t = "boolean"   -> v.bool
      [] v.t = "array"     -> TRUE
      [] v.t = "object"    -> TRUE

\* a || b
Or(a, b) == IF Truthy(a) THEN a ELSE b

\* v > n for a number n; undefined is NaN and null is 0 under ToNumber.
\* (Strings, arrays and objects as operands are outside the model's inputs.)
JsGreater(v, n) ==
    CASE v.t = "number"    -> RLess(Int2Real(n), v.num)
      [] v.t = "undefined" -> FALSE
      [] v.t = "null"      -> 0 > n
      [] v.t = "boolean"   -> (IF v.bool THEN 1 ELSE 0) > n

-----------------------------------------------------------------------------
(* LLMCoordinator.cosineSimilarity on vectors of integers                  *)

RECURSIVE SumTo(_, _)
\* sum of f[1..n]
SumTo(f, n) == IF n = 0 THEN 0 ELSE SumTo(f, n - 1) + f[n]

\* vec1, vec2: JsUndefined or JsArray of integers.
cosineSimilarity(vec1, vec2) ==
    IF ~Truthy(vec1) \/ ~Truthy(vec2) \/ Len(vec1.arr) # Len(vec2.arr)
    THEN Zero
    ELSE LET n          == Len(vec1.arr)
             dotProduct == SumTo([i \in 1..n |-> vec1.arr[i] * vec2.arr[i]], n)
             mag1sq     == SumTo([i \in 1..n |-> vec1.arr[i] * vec1.arr[i]], n)
             mag2sq     == SumTo([i \in 1..n |-> vec2.arr[i] * vec2.arr[i]], n)
         IN  \* mag1 = sqrt(mag1sq), mag2 = sqrt(mag2sq)
             IF mag1sq = 0 \/ mag2sq = 0
             THEN Zero
             ELSE Real(0, dotProduct, mag1sq * mag2sq, 1)

-----------------------------------------------------------------------------
(* LLMCoordinator.scoreRecommendationsWithEmbeddings                       *)

Half == Rat(1, 2)

\* folderProfiles.find(f => f.folderPath === folderPath): the first match,
\* or JsUndefined.  A profile is a record; wrapped as [t |-> "profile"].
FindProfile(profiles, folderPath) ==
    LET hits == { i \in 1..Len(profiles) : profiles[i].folderPath = folderPath }
    IN  IF hits = {} THEN JsUndefined
        ELSE [t |-> "profile",
              p |-> profiles[CHOOSE i \in hits : \A j \in hits : i <= j]]

\* The neutral fallback of processRec (no folder data, no valid centroid, or
\* the catch block).
NeutralFallback(rec) ==
    [rec EXCEPT !.similarity = JsNumber(Half),
                !.enhancedConfidence = rec.confidence]

\* The blended branch with matchStrength set again from the blended score.
BlendedScore_retiered(rec, folderData, embedding) ==
    LET similarity == cosineSimilarity(embedding, folderData.folderCentroid)
        coherence  == Or(folderData.coherenceScore, JsNumber(Half)).num
        llmConf    == RDivInt(rec.confidence.num, 100)
        blended    == blendConfidenceScores(llmConf, similarity, coherence)
        enhanced   == MathRound(RMul(blended, Int2Real(100)))
    IN  [rec EXCEPT !.similarity = JsNumber(similarity),
                    !.enhancedConfidence = JsNumber(Int2Real(enhanced)),
                    !.matchStrength = IF enhanced > 80 THEN "strong"
                                      ELSE IF enhanced > 60 THEN "moderate"
                                      ELSE "weak"]

\* The blended branch of processRec, lines 108-130, for a numeric confidence.
BlendedScore(rec, folderData, embedding) ==
    LET similarity == cosineSimilarity(embedding, folderData.folderCentroid)
        coherence  == Or(folderData.coherenceScore, JsNumber(Half)).num
        llmConf    == RDivInt(rec.confidence.num, 100)
        blended    == blendConfidenceScores(llmConf, similarity, coherence)
    IN  [rec EXCEPT !.similarity = JsNumber(similarity),
                    !.enhancedConfidence =
                        JsNumber(Int2Real(MathRound(RMul(blended, Int2Real(100)))))]

\* processRec without the validity checks of lines 101-106.
processRec_noValidityCheck(rec, profiles, embedding) ==
    LET found == FindProfile(profiles, rec.folderPath)
    IN  IF found = JsUndefined THEN NeutralFallback(rec)
        ELSE IF rec.confidence.t # "number" THEN NeutralFallback(rec)
        ELSE BlendedScore(rec, found.p, embedding)

processRec(rec, profiles, embedding) ==
    LET found == FindProfile(profiles, rec.folderPath)
    IN  IF found = JsUndefined
        THEN NeutralFallback(rec)
        ELSE IF ~found.p.hasValidCentroid \/ ~Truthy(found.p.folderCentroid)
        THEN NeutralFallback(rec)
        ELSE IF rec.confidence.t # "number"
        THEN \* rec.confidence.toFixed (line 130) throws a TypeError after
             \* similarity and enhancedConfidence were written: the catch
             \* block overwrites both.
             NeutralFallback(rec)
        ELSE BlendedScore(rec, found.p, embedding)

\* A fusion that promotes the first alternative when it ends with a higher
\* enhancedConfidence than the primary.
scoreRecommendationsWithEmbeddings_reranked(recommendations, embedding, profiles) ==
    IF ~Truthy(embedding)
    THEN recommendations
    ELSE LET primary == processRec(recommendations.primaryRecommendation,
                                   profiles, embedding)
             alts    == [i \in 1..Len(recommendations.alternatives) |->
                            processRec(recommendations.alternatives[i],
                                       profiles, embedding)]
             promote == /\ Len(alts) > 0
                        /\ alts[1].enhancedConfidence.t = "number"
                        /\ primary.enhancedConfidence.t = "number"
                        /\ RLess(primary.enhancedConfidence.num,
                                 alts[1].enhancedConfidence.num)
         IN  [recommendations EXCEPT
                !.primaryRecommendation = IF promote THEN alts[1] ELSE primary,
                !.alternatives = IF promote
                                 THEN [alts EXCEPT ![1] = primary] ELSE alts]

\* recommendations: [primaryRecommendation, alternatives, ...]
scoreRecommendationsWithEmbeddings(recommendations, embedding, profiles) ==
    IF ~Truthy(embedding)
    THEN recommendations
    ELSE [recommendations EXCEPT
            !.primaryRecommendation = processRec(@, profiles, embedding),
            !.alternatives = [i \in 1..Len(@) |->
                                 processRec(@[i], profiles, embedding)]]

-----------------------------------------------------------------------------
(* JSON.parse on a text given as a sequence of one-character strings.      *)
(* Covered grammar: objects, arrays, strings with backslash escapes,       *)
(* integers, null, true, false, white space.  Fractions, exponents and     *)
(* \u escapes are outside the alphabet of the model's texts.               *)

Quote == "\""
Backslash == "\\"
Digits == << "0", "1", "2", "3", "4", "5", "6", "7", "8", "9" >>
IsDigit(c) == \E k \in 1..10 : Digits[k] = c
DigitValue(c) == (CHOOSE k \in 1..10 : Digits[k] = c) - 1
IsWhitespace(c) == c \in { " ", "\n", "\t", "\r" }

SyntaxError == [ok |-> FALSE]
Parsed(v, next) == [ok |-> TRUE, val |-> v, pos |-> next]

RECURSIVE SkipWhitespace(_, _)
SkipWhitespace(s, i) ==
    IF i <= Len(s) /\ IsWhitespace(s[i]) THEN SkipWhitespace(s, i + 1) ELSE i

\* The characters of a string literal from position i (after the opening
\* quote) up to its closing quote; acc holds the characters read so far.
RECURSIVE ParseStringBody(_, _, _)
ParseStringBody(s, i, acc) ==
    IF i > Len(s) THEN SyntaxError
    ELSE IF s[i] = Quote THEN Parsed(JsString(acc), i + 1)
    ELSE IF s[i] = Backslash
         THEN IF i + 1 > Len(s) THEN SyntaxError
              ELSE IF s[i + 1] \in { Quote, Backslash, "/" }
                   THEN ParseStringBody(s, i + 2, Append(acc, s[i + 1]))
              ELSE IF s[i + 1] = "n"
                   THEN ParseStringBody(s, i + 2, Append(acc, "\n"))
              ELSE IF s[i + 1] = "t"
                   THEN ParseStringBody(s, i + 2, Append(acc, "\t"))
              ELSE IF s[i + 1] = "r"
                   THEN ParseStringBody(s, i + 2, Append(acc, "\r"))
              ELSE SyntaxError
    ELSE IF s[i] \in { "\n", "\t", "\r" } THEN SyntaxError
    ELSE ParseStringBody(s, i + 1, Append(acc, s[i]))

\* Digits from position i on; n is the value read so far.
RECURSIVE ParseDigits(_, _, _)
ParseDigits(s, i, n) ==
    IF i <= Len(s) /\ IsDigit(s[i])
    THEN ParseDigits(s, i + 1, 10 * n + DigitValue(s[i]))
    ELSE [n |-> n, pos |-> i]

\* -? ( 0 | [1-9][0-9]* )
ParseNumber(s, i) ==
    LET neg   == s[i] = "-"
        first == IF neg THEN i + 1 ELSE i
    IN  IF first > Len(s) \/ ~IsDigit(s[first]) THEN SyntaxError
        ELSE IF s[first] = "0"
             THEN IF first + 1 <= Len(s) /\ IsDigit(s[first + 1])
                  THEN SyntaxError
                  ELSE Parsed(JsNumber(Zero), first + 1)
        ELSE LET d == ParseDigits(s, first, 0)
             IN  Parsed(JsNumber(Int2Real(IF neg THEN -d.n ELSE d.n)), d.pos)

StartsWith(s, i, word) ==
    /\ i + Len(word) - 1 <= Len(s)
    /\ \A k \in 1..Len(word) : s[i + k - 1] = word[k]

RECURSIVE ParseValue(_, _)
RECURSIVE ParseMembers(_, _, _)
RECURSIVE ParseElements(_, _, _)

\* The members of an object from position i (a key is expected there).
ParseMembers(s, i, acc) ==
    IF i > Len(s) \/ s[i] # Quote THEN SyntaxError
    ELSE LET key == ParseStringBody(s, i + 1, << >>)
         IN  IF ~key.ok THEN SyntaxError
             ELSE LET colon == SkipWhitespace(s, key.pos)
                  IN  IF colon > Len(s) \/ s[colon] # ":" THEN SyntaxError
                      ELSE LET v == ParseValue(s, colon + 1)
                           IN  IF ~v.ok THEN SyntaxError
                               ELSE LET j  == SkipWhitespace(s, v.pos)
                                        ms == Append(acc, << key.val.str, v.val >>)
                                    IN  IF j > Len(s) THEN SyntaxError
                                        ELSE IF s[j] = "}"
                                             THEN Parsed(JsObject(ms), j + 1)
                                        ELSE IF s[j] = ","
                                             THEN ParseMembers(s,
                                                    SkipWhitespace(s, j + 1), ms)
                                        ELSE SyntaxError

\* The elements of an array from position i (a value is expected there).
ParseElements(s, i, acc) ==
    LET v == ParseValue(s, i)
    IN  IF ~v.ok THEN SyntaxError
        ELSE LET j  == SkipWhitespace(s, v.pos)
                 es == Append(acc, v.val)
             IN  IF j > Len(s) THEN SyntaxError
                 ELSE IF s[j] = "]" THEN Parsed(JsArray(es), j + 1)
                 ELSE IF s[j] = "," THEN ParseElements(s, j + 1, es)
                 ELSE SyntaxError

ParseValue(s, at) ==
    LET i == SkipWhitespace(s, at)
    IN  IF i > Len(s) THEN SyntaxError
        ELSE IF s[i] = "{"
             THEN LET j == SkipWhitespace(s, i + 1)
                  IN  IF j <= Len(s) /\ s[j] = "}"
                      THEN Parsed(JsObject(<< >>), j + 1)
                      ELSE ParseMembers(s, j, << >>)
        ELSE IF s[i] = "["
             THEN LET j == SkipWhitespace(s, i + 1)
                  IN  IF j <= Len(s) /\ s[j] = "]"
                      THEN Parsed(JsArray(<< >>), j + 1)
                      ELSE ParseElements(s, j, << >>)
        ELSE IF s[i] = Quote THEN ParseStringBody(s, i + 1, << >>)
        ELSE IF s[i] = "-" \/ IsDigit(s[i]) THEN ParseNumber(s, i)
        ELSE IF StartsWith(s, i, << "n", "u", "l", "l" >>)
             THEN Parsed(JsNull, i + 4)
        ELSE IF StartsWith(s, i, << "t", "r", "u", "e" >>)
             THEN Parsed(JsBoolean(TRUE), i + 4)
        ELSE IF StartsWith(s, i, << "f", "a", "l", "s", "e" >>)
             THEN Parsed(JsBoolean(FALSE), i + 5)
        ELSE SyntaxError

\* JSON.parse(text): one value, then only white space.
JSONParse(text) ==
    LET v == ParseValue(text, 1)
    IN  IF v.ok /\ SkipWhitespace(text, v.pos) = Len(text) + 1
        THEN [ok |-> TRUE, val |-> v.val]
        ELSE SyntaxError

\* v.key for a value that is neither undefined nor null: the last member
\* with that key (JSON.parse keeps the last of duplicate keys).
Prop(v, key) ==
    IF v.t # "object" THEN JsUndefined
    ELSE LET hits == { i \in 1..Len(v.obj) : v.obj[i][1] = key }
         IN  IF hits = {} THEN JsUndefined
             ELSE v.obj[CHOOSE i \in hits : \A j \in hits : j <= i][2]

Nullish(v) == v.t \in { "undefined", "null" }

-----------------------------------------------------------------------------
(* LLMCoordinator.parseRecommendationResponse                              *)

\* Property names, as character sequences.
K_primaryRecommendation ==
    << "p", "r", "i", "m", "a", "r", "y", "R", "e", "c", "o", "m", "m", "e", "n", "d", "a", "t", "i", "o", "n" >>
K_alternatives ==
    << "a", "l", "t", "e", "r", "n", "a", "t", "i", "v", "e", "s" >>
K_suggestedNewFolder ==
    << "s", "u", "g", "g", "e", "s", "t", "e", "d", "N", "e", "w", "F", "o", "l", "d", "e", "r" >>
K_folderPath ==
    << "f", "o", "l", "d", "e", "r", "P", "a", "t", "h" >>
K_folder ==
    << "f", "o", "l", "d", "e", "r" >>
K_folderName ==
    << "f", "o", "l", "d", "e", "r", "N", "a", "m", "e" >>
K_confidence ==
    << "c", "o", "n", "f", "i", "d", "e", "n", "c", "e" >>
K_reasoning ==
    << "r", "e", "a", "s", "o", "n", "i", "n", "g" >>
K_matchedTopics ==
    << "m", "a", "t", "c", "h", "e", "d", "T", "o", "p", "i", "c", "s" >>
K_name ==
    << "n", "a", "m", "e" >>

EmptyString == JsString(<< >>)

\* The thresholds with >= in place of > .
PrimaryMatchStrength_inclusive(confidence) ==
    IF JsGreater(confidence, 79) THEN "strong"
    ELSE IF JsGreater(confidence, 59) THEN "moderate"
    ELSE "weak"

\* matchStrength of the primary recommendation, lines 432-433.
PrimaryMatchStrength(confidence) ==
    IF JsGreater(confidence, 80) THEN "strong"
    ELSE IF JsGreater(confidence, 60) THEN "moderate"
    ELSE "weak"

\* The alias chain in the opposite priority order.
FolderIdentifier_nameFirst(raw) ==
    Or(Prop(raw, K_folderName),
       Or(Prop(raw, K_folder), Or(Prop(raw, K_folderPath), EmptyString)))

\* folderPath: raw.folderPath || raw.folder || raw.folderName || ''
FolderIdentifier(raw) ==
    Or(Prop(raw, K_folderPath),
       Or(Prop(raw, K_folder), Or(Prop(raw, K_folderName), EmptyString)))

\* folderName: profile?.folderName || raw.folderName || raw.folderPath, the
\* profile being found by raw.folderPath.
FolderLabel(raw, profiles) ==
    LET found == FindProfile(profiles, Prop(raw, K_folderPath))
    IN  Or(IF found = JsUndefined THEN JsUndefined ELSE found.p.folderName,
           Or(Prop(raw, K_folderName), Prop(raw, K_folderPath)))

\* One FolderRecommendation built from a raw recommendation of the reply.
Recommendation(raw, profiles, matchStrength) ==
    [folderPath         |-> FolderIdentifier(raw),
     folderName         |-> FolderLabel(raw, profiles),
     confidence         |-> Prop(raw, K_confidence),
     reasoning          |-> Prop(raw, K_reasoning),
     matchedTopics      |-> Or(Prop(raw, K_matchedTopics), JsArray(<< >>)),
     matchStrength      |-> matchStrength,
     similarity         |-> JsUndefined,
     enhancedConfidence |-> JsUndefined]

\* new Error('Failed to parse LLM response: ...')
ParseError == [ok |-> FALSE]

\* The object literal of lines 425-453 (analysisMetadata, which holds clock
\* readings and the model name, is left out).
BuildResult(json, primaryRec, alternatives, profiles) ==
    LET suggested == Prop(json, K_suggestedNewFolder)
    IN  [ok |-> TRUE,
         val |-> [primaryRecommendation |->
                      Recommendation(primaryRec, profiles,
                          PrimaryMatchStrength(Prop(primaryRec, K_confidence))),
                  alternatives |->
                      [i \in 1..Len(alternatives) |->
                          Recommendation(alternatives[i], profiles, "moderate")],
                  shouldCreateNewFolder |->
                      Truthy(suggested) /\ Truthy(Prop(suggested, K_name)),
                  suggestedNewFolder |-> suggested]]

\* Returns [ok |-> TRUE, val |-> RecommendationResult] or ParseError.
\* Every TypeError of the try block ends in the catch at line 454:
\* json null, primaryRec undefined or null, alternatives not an array (no
\* .map), an alternative undefined or null.
parseRecommendationResponse(text, profiles) ==
    LET parsedText == JSONParse(text)
    IN  IF ~parsedText.ok THEN ParseError
        ELSE LET json == parsedText.val
             IN  IF Nullish(json) THEN ParseError
                 ELSE LET primaryRec   == Prop(json, K_primaryRecommendation)
                          alternatives == Or(Prop(json, K_alternatives),
                                             JsArray(<< >>))
                      IN  IF Nullish(primaryRec) THEN ParseError
                          ELSE IF alternatives.t # "array" THEN ParseError
                          ELSE IF \E i \in 1..Len(alternatives.arr) :
                                      Nullish(alternatives.arr[i])
                               THEN ParseError
                          ELSE BuildResult(json, primaryRec,
                                           alternatives.arr, profiles)

-----------------------------------------------------------------------------
(* Judgment replies: JSON texts in the format the system prompt asks for,  *)
(* and the ways a reply departs from it.                                   *)

RECURSIVE Escape(_)
Escape(chars) ==
    IF chars = << >> THEN << >>
    ELSE LET c == Head(chars)
         IN  (CASE c = Quote     -> << Backslash, Quote >>
                [] c = Backslash -> << Backslash, Backslash >>
                [] c = "\n"      -> << Backslash, "n" >>
                [] OTHER         -> << c >>) \o Escape(Tail(chars))

JsonString(chars) == << Quote >> \o Escape(chars) \o << Quote >>

RECURSIVE Decimal(_)
Decimal(n) == IF n < 10 THEN << Digits[n + 1] >>
              ELSE Decimal(n \div 10) \o << Digits[(n % 10) + 1] >>

JsonNumber(n) == IF n < 0 THEN << "-" >> \o Decimal(-n) ELSE Decimal(n)

RECURSIVE Join(_, _)
Join(texts, sep) ==
    IF texts = << >> THEN << >>
    ELSE IF Len(texts) = 1 THEN texts[1]
    ELSE texts[1] \o sep \o Join(Tail(texts), sep)

\* members: sequence of << key, value text >>
JsonObject(members) ==
    << "{" >>
    \o Join([i \in 1..Len(members) |->
                JsonString(members[i][1]) \o << ":" >> \o members[i][2]],
            << "," >>)
    \o << "}" >>

JsonArray(texts) == << "[" >> \o Join(texts, << "," >>) \o << "]" >>

JsonNull == << "n", "u", "l", "l" >>

Projects == << "P", "r", "o", "j", "e", "c", "t", "s" >>
Inbox == << "I", "n", "b", "o", "x" >>
Archive == << "A", "r", "c", "h", "i", "v", "e" >>

\* A confidence is a number, null or absent (JsUndefined).
Confidence(n) == JsNumber(Int2Real(n))

\* The text of one recommendation object: ids is a sequence of
\* << alias key, folder identifier >>, confidence a JS value, reasoning either
\* << >> (no reasoning member) or << characters >>.
RecommendationText(ids, confidence, reasoning) ==
    JsonObject(
        [i \in 1..Len(ids) |-> << ids[i][1], JsonString(ids[i][2]) >>]
        \o (CASE confidence.t = "undefined" -> << >>
              [] confidence.t = "null" -> << << K_confidence, JsonNull >> >>
              [] confidence.t = "number" ->
                   << << K_confidence, JsonNumber(confidence.num.a) >> >>)
        \o (IF reasoning = << >> THEN << >>
            ELSE << << K_reasoning, JsonString(reasoning[1]) >> >>))

\* The text of a reply: primary and suggested are value texts or << >> for
\* an absent member; alternatives is << >> (absent) or << value text >>.
ReplyText(primary, alternatives, suggested) ==
    JsonObject(
        (IF primary = << >> THEN << >>
         ELSE << << K_primaryRecommendation, primary[1] >> >>)
        \o (IF alternatives = << >> THEN << >>
            ELSE << << K_alternatives, alternatives[1] >> >>)
        \o (IF suggested = << >> THEN << >>
            ELSE << << K_suggestedNewFolder, suggested[1] >> >>))

ConfidenceChoices ==
    { JsUndefined, JsNull }
    \cup { Confidence(n) : n \in { 0, 50, 60, 61, 70, 80, 81, 100, 150 } }

\* Folder identifiers of a recommendation under the alias keys.
IdentifierChoices ==
    { << >>,
      << << K_folderPath, Projects >> >>,
      << << K_folderPath, Inbox >> >>,
      << << K_folderPath, Archive >> >>,
      << << K_folderPath, << >> >> >>,
      << << K_folder, Projects >> >>,
      << << K_folderName, Projects >> >>,
      << << K_folderPath, << >> >>, << K_folder, Inbox >> >>,
      << << K_folderPath, Projects >>, << K_folder, Inbox >> >>,
      << << K_folder, Inbox >>, << K_folderName, Projects >> >> }

\* Replies with a primary recommendation only.
PrimaryReplies ==
    { ReplyText(<< RecommendationText(ids, c, << >>) >>, << >>, << >>) :
        ids \in IdentifierChoices, c \in ConfidenceChoices }

MaxAlternatives == 2

AlternativeChoices ==
    { RecommendationText(<< << K_folderPath, Inbox >> >>, Confidence(90), << >>),
      RecommendationText(<< << K_folder, Projects >> >>, Confidence(50), << >>),
      RecommendationText(<< << K_folderPath, Projects >> >>, Confidence(61), << >>),
      RecommendationText(<< << K_folderPath, Inbox >> >>, JsUndefined, << >>),
      RecommendationText(<< << K_folderPath, << >> >>, << K_folder, Inbox >>,
                            << K_folderName, Projects >> >>,
                         Confidence(70), << >>) }

AlternativeLists ==
    UNION { [1..n -> AlternativeChoices] : n \in 0..MaxAlternatives }

StandardPrimary ==
    RecommendationText(<< << K_folderPath, Projects >> >>, Confidence(70), << >>)

\* Replies with alternatives, and with an alternatives member that is not a
\* list of objects.
AlternativeReplies ==
    { ReplyText(<< StandardPrimary >>, << JsonArray(alts) >>, << >>) :
        alts \in AlternativeLists }
    \cup { ReplyText(<< StandardPrimary >>, << t >>, << >>) :
             t \in { JsonNull, JsonString(Inbox), JsonArray(<< JsonNull >>) } }

\* Replies with a suggestedNewFolder member, with and without a name.
SuggestionReplies ==
    { ReplyText(<< StandardPrimary >>, << >>, << t >>) :
        t \in { JsonObject(<< << K_name, JsonString(Archive) >> >>),
                JsonObject(<< >>), JsonNull } }

\* JSON values that are not a recommendation object.
MalformedReplies ==
    { JsonNull, JsonObject(<< >>), JsonArray(<< >>), JsonNumber(42), << >>,
      ReplyText(<< JsonNull >>, << >>, << >>),
      ReplyText(<< JsonString(Projects) >>, << >>, << >>) }

\* The token standing for the backtick character of a markdown fence.
Backtick == "<backtick>"
Fence == << Backtick, Backtick, Backtick >>

\* Recommendation objects that get wrapped: the second has braces and an
\* escaped quote inside a string literal.
WrappedBodies ==
    { ReplyText(<< RecommendationText(<< << K_folderPath, Projects >> >>,
                                      Confidence(85), << << "o", "k" >> >>) >>,
                << >>, << >>),
      ReplyText(<< RecommendationText(<< << K_folderPath, Projects >> >>,
                                      Confidence(85),
                                      << << "}", Quote, "{" >> >>) >>,
                << JsonArray(<< RecommendationText(
                       << << K_folderPath, Inbox >> >>, Confidence(40), << >>) >>) >>,
                << >>) }

\* A body as the reply carries it: bare, in a markdown fence, inside prose,
\* padded with white space, or cut short.
Wrappings(body) ==
    { [text |-> body, kind |-> "bare"],
      [text |-> Fence \o << "j", "s", "o", "n", "\n" >> \o body
                 \o << "\n" >> \o Fence, kind |-> "fenced"],
      [text |-> << "S", "u", "r", "e", ":", " " >> \o body
                 \o << " ", "o", "k" >>, kind |-> "prose"],
      [text |-> << " ", "\n" >> \o body \o << "\n" >>, kind |-> "padded"],
      [text |-> SubSeq(body, 1, Len(body) - 1), kind |-> "truncated"],
      [text |-> SubSeq(body, 1, Len(body) - 2), kind |-> "truncated"] }

-----------------------------------------------------------------------------
(* Folder profiles and document embeddings supplied by the caller.         *)

MaxDim == 2

Components == { -1, 0, 1 }
Vectors(n) == { JsArray(v) : v \in [1..n -> Components] }
AllVectors == UNION { Vectors(n) : n \in 1..MaxDim }

Coherences == { Zero, Half, Rat(9, 10), One }

FolderProfile(path, name, valid, centroid, coherence) ==
    [folderPath       |-> JsString(path),
     folderName       |-> JsString(name),
     hasValidCentroid |-> valid,
     folderCentroid   |-> centroid,
     coherenceScore   |-> JsNumber(coherence)]

\* Profiles of the folder "Projects": every centroid with every coherence,
\* and the profiles without a usable centroid.
ProjectsProfiles ==
    { FolderProfile(Projects, << "P" >>, TRUE, c, k) :
        c \in AllVectors, k \in Coherences }
    \cup { FolderProfile(Projects, << "P" >>, FALSE, JsArray(<< 1, 0 >>), Rat(9, 10)),
           FolderProfile(Projects, << "P" >>, TRUE, JsUndefined, Rat(9, 10)),
           FolderProfile(Projects, << "P" >>, FALSE, JsUndefined, Zero) }

InboxValid == FolderProfile(Inbox, << "I" >>, TRUE, JsArray(<< 1, 1 >>), Half)
InboxInvalid == FolderProfile(Inbox, << "I" >>, FALSE, JsUndefined, Rat(7, 10))

StandardProjects ==
    FolderProfile(Projects, << "P" >>, TRUE, JsArray(<< 1, 0 >>), Rat(9, 10))

\* Profile lists for the requests that exercise fusion.
FusionProfileLists ==
    { << p >> : p \in ProjectsProfiles }
    \cup { << p, InboxValid >> : p \in ProjectsProfiles }

\* Profile lists for the requests that exercise the parser.
ParserProfileLists ==
    { << >>, << StandardProjects, InboxInvalid >>, << InboxValid, StandardProjects >> }

\* currentFileEmbedding: absent, empty, or a vector.
FusionEmbeddings == { JsArray(<< 1, 0 >>), JsArray(<< 1, 1 >>), JsArray(<< -1, 1 >>) }
ParserEmbeddings == { JsUndefined, JsArray(<< >>), JsArray(<< 1, 0 >>) }

\* Replies of the requests that exercise fusion: a primary for "Projects"
\* with each confidence, alone or with one alternative for "Inbox".
FusionReplies ==
    { ReplyText(<< RecommendationText(<< << K_folderPath, Projects >> >>, c, << >>) >>,
                alts, << >>) :
        c \in ConfidenceChoices,
        alts \in { << >>,
                   << JsonArray(<< RecommendationText(
                          << << K_folderPath, Inbox >> >>, Confidence(90), << >>) >>) >> } }

ParserReplies ==
    PrimaryReplies \cup AlternativeReplies \cup SuggestionReplies
    \cup MalformedReplies

-----------------------------------------------------------------------------
(* SmartConnectionsService: the on-disk embedding stores (.ajson files)     *)
(* and their parser.  Texts are sequences of one-character strings.         *)

SmartSourcesPrefix ==
    << "s", "m", "a", "r", "t", "_", "s", "o", "u", "r", "c", "e", "s", ":" >>
SmartBlocksPrefix ==
    << "s", "m", "a", "r", "t", "_", "b", "l", "o", "c", "k", "s", ":" >>
AjsonSuffix ==
    << ".", "a", "j", "s", "o", "n" >>
K_embeddings ==
    << "e", "m", "b", "e", "d", "d", "i", "n", "g", "s" >>
K_vec ==
    << "v", "e", "c" >>
\* SmartConnectionsService.embeddingModel
EmbeddingModel ==
    << "T", "a", "y", "l", "o", "r", "A", "I", "/", "b", "g", "e", "-", "m", "i", "c", "r", "o", "-", "v", "2" >>

\* pathToAjsonFileName: "/", "." and " " become "_", then ".ajson".
pathToAjsonFileName(filePath) ==
    [i \in 1..Len(filePath) |->
        IF filePath[i] \in { "/", ".", " " } THEN "_" ELSE filePath[i]]
    \o AjsonSuffix

\* The first position p >= i with s[p] = Quote, or 0.
NextQuote(s, i) ==
    LET quotes == { p \in i..Len(s) : s[p] = Quote }
    IN  IF quotes = {} THEN 0
        ELSE CHOOSE p \in quotes : \A q \in quotes : p <= q

\* /"(smart_sources|smart_blocks):[^"]+"/ matched at position i: the
\* position of the closing quote, or 0 when there is no match at i.
KeyMatchAt(s, i) ==
    IF i > Len(s) \/ s[i] # Quote THEN 0
    ELSE LET after == IF StartsWith(s, i + 1, SmartSourcesPrefix)
                      THEN i + 1 + Len(SmartSourcesPrefix)
                      ELSE IF StartsWith(s, i + 1, SmartBlocksPrefix)
                      THEN i + 1 + Len(SmartBlocksPrefix)
                      ELSE 0
             close == IF after = 0 THEN 0 ELSE NextQuote(s, after)
         IN  IF close > after THEN close ELSE 0

\* The variables of the scan of lines 20-60 before its first character
\* (valueStart and valueEnd are positions from 1, 0 standing for -1).
ScanStart ==
    [braceCount |-> 0, valueStart |-> 0, valueEnd |-> 0,
     inString |-> FALSE, escapeNext |-> FALSE]

\* One pass of the loop body of lines 28-59 on the character c at
\* position i; after the break (valueEnd set) nothing changes.
ScanStep(st, c, i) ==
    IF st.valueEnd # 0 THEN st
    ELSE IF st.escapeNext THEN [st EXCEPT !.escapeNext = FALSE]
    ELSE IF c = Backslash THEN [st EXCEPT !.escapeNext = TRUE]
    ELSE LET inString == IF c = Quote THEN ~st.inString ELSE st.inString
             t        == [st EXCEPT !.inString = inString]
         IN  IF inString THEN t
             ELSE IF c = "{"
                  THEN [t EXCEPT !.braceCount = @ + 1,
                                 !.valueStart = IF @ = 0 THEN i ELSE @]
             ELSE IF c = "}"
                  THEN [t EXCEPT !.braceCount = @ - 1,
                                 !.valueEnd =
                                    IF t.braceCount - 1 = 0 /\ t.valueStart # 0
                                    THEN i ELSE 0]
             ELSE t

\* F(v) with v evaluated once, whatever the number of uses F makes of it.
Let(F(_), v) == CHOOSE r \in { F(x) : x \in { v } } : TRUE

\* The loop of lines 27-60 over the positions lo..hi, entered with st.  The
\* range is split in two so that the depth of the evaluation stays
\* logarithmic.
RECURSIVE ScanRange(_, _, _, _)
ScanRange(s, lo, hi, st) ==
    IF lo > hi THEN st
    ELSE IF lo = hi THEN ScanStep(st, s[lo], lo)
    ELSE LET mid == (lo + hi) \div 2
             Rest(left) == IF left.valueEnd # 0 THEN left    \* break, line 56
                           ELSE ScanRange(s, mid + 1, hi, left)
         IN  Let(Rest, ScanRange(s, lo, mid, st))

\* The value object found by scanning from position i: its first and last
\* position, or [found |-> FALSE].
ScanObject(s, i) ==
    LET st == ScanRange(s, i, Len(s), ScanStart)
    IN  IF st.valueStart # 0 /\ st.valueEnd # 0
        THEN [found |-> TRUE, first |-> st.valueStart, last |-> st.valueEnd]
        ELSE [found |-> FALSE]

\* parseAjsonFile from position i on (the regular expression's lastIndex):
\* the members collected so far are in acc, as << key, value >> in the
\* order of assignment.
RECURSIVE ParseAjsonFrom(_, _, _)
ParseAjsonFrom(s, i, acc) ==
    LET matches == { p \in i..Len(s) : KeyMatchAt(s, p) # 0 }
    IN  IF matches = {} THEN acc
        ELSE LET start == CHOOSE p \in matches : \A q \in matches : p <= q
                 close == KeyMatchAt(s, start)
                 key   == SubSeq(s, start + 1, close - 1)
                 scan  == ScanObject(s, start)
                 value == IF scan.found
                          THEN JSONParse(SubSeq(s, scan.first, scan.last))
                          ELSE SyntaxError
             IN  ParseAjsonFrom(s, close + 1,
                                IF value.ok
                                THEN Append(acc, << key, value.val >>)
                                ELSE acc)

\* parseAjsonFile(content): a Record<string, any>; a key assigned twice
\* holds the last value (Prop reads the last member).
parseAjsonFile(text) == JsObject(ParseAjsonFrom(text, 1, << >>))

-----------------------------------------------------------------------------
(* SmartConnectionsService: embedding lookups.  The file holds two         *)
(* versions of the class: the one reading the .ajson stores (lines 76-428, *)
(* getFileEmbedding) and the one calling the Smart Connections plugin      *)
(* (lines 433-621, getNoteEmbedding).                                      *)

\* How a call ends: with an exception, or with a value.
Thrown == [thrown |-> TRUE]
Returned(v) == [thrown |-> FALSE, val |-> v]

\* this.app.vault.adapter.read(`.smart-env/multi/${name}`)
VaultRead(files, name) ==
    IF name \in DOMAIN files THEN Returned(files[name]) ELSE Thrown

\* The try block of loadAjsonFile (lines 140-157): the file is read and
\* parsed and the parse is stored in the cache; a failing read stores
\* nothing and gives null.
readAndParse(ajsonFileName, cache, files) ==
    LET text == VaultRead(files, ajsonFileName)
        Loaded(data) ==
           [ret   |-> data,
            cache |-> [n \in DOMAIN cache \cup { ajsonFileName } |->
                          IF n = ajsonFileName THEN data ELSE cache[n]],
            read  |-> TRUE]
    IN  IF text.thrown
        THEN [ret |-> JsNull, cache |-> cache, read |-> TRUE]
        ELSE Let(Loaded, parseAjsonFile(text.val))

\* A loadAjsonFile that reads and parses the file at every call.
loadAjsonFile_uncached(ajsonFileName, cache, files) ==
    readAndParse(ajsonFileName, cache, files)

\* loadAjsonFile: the value returned, the cache afterwards, and whether
\* the file was read.
loadAjsonFile(ajsonFileName, cache, files) ==
    IF ajsonFileName \in DOMAIN cache
    THEN [ret |-> cache[ajsonFileName], cache |-> cache, read |-> FALSE]
    ELSE LET text == VaultRead(files, ajsonFileName)
             Loaded(data) ==
                [ret   |-> data,
                 cache |-> [n \in DOMAIN cache \cup { ajsonFileName } |->
                               IF n = ajsonFileName THEN data ELSE cache[n]],
                 read  |-> TRUE]
         IN  IF text.thrown
             THEN \* catch, lines 153-157
                  [ret |-> JsNull, cache |-> cache, read |-> TRUE]
             ELSE Let(Loaded, parseAjsonFile(text.val))

\* extractEmbeddingFromAjson: embeddings -> model -> vec, or null.
extractEmbeddingFromAjson(ajsonData, filePath) ==
    IF ~Truthy(ajsonData) THEN JsNull
    ELSE LET fileData == Prop(ajsonData, SmartSourcesPrefix \o filePath)
         IN  IF ~Truthy(fileData) THEN JsNull
             ELSE LET embeddings == Prop(fileData, K_embeddings)
                  IN  IF ~Truthy(embeddings) THEN JsNull
                      ELSE LET modelEmbedding == Prop(embeddings, EmbeddingModel)
                           IN  IF ~Truthy(modelEmbedding) THEN JsNull
                               ELSE LET vec == Prop(modelEmbedding, K_vec)
                                    IN  IF vec.t = "array" THEN vec ELSE JsNull

\* getFileEmbedding (lines 200-227) for a file with path filePath: how the
\* call ends, the cache afterwards, and whether a file was read.  Nothing
\* inside its try block throws for a string path, so its catch is not
\* entered.
getFileEmbedding(filePath, available, cache, files) ==
    IF ~available
    THEN [out |-> Returned(JsNull), cache |-> cache, read |-> FALSE]
    ELSE LET Rest(loaded) ==
                [out   |-> Returned(IF ~Truthy(loaded.ret) THEN JsNull
                                    ELSE extractEmbeddingFromAjson(loaded.ret,
                                                                   filePath)),
                 cache |-> loaded.cache,
                 read  |-> loaded.read]
         IN  Let(Rest, loadAjsonFile(pathToAjsonFileName(filePath), cache, files))

\* What the Smart Connections plugin can be.
PluginKinds ==
    { "not installed", "no api", "api throws", "api absent", "api vector" }

\* The vector the plugin's API returns when it returns one.
LiveVector == JsArray(<< JsNumber(Zero), JsNumber(One) >>)

\* plugin.api.getNoteEmbedding(file)
ApiGetNoteEmbedding(plugin) ==
    CASE plugin = "api throws" -> Thrown
      [] plugin = "api absent" -> Returned(JsNull)
      [] plugin = "api vector" -> Returned(LiveVector)

\* The plugin lookup with its try block left unguarded.
getNoteEmbedding_noCatch(plugin) ==
    IF plugin = "not installed" THEN Returned(JsNull)
    ELSE IF plugin = "no api" THEN Returned(JsNull)
    ELSE ApiGetNoteEmbedding(plugin)

\* getNoteEmbedding of the plugin-backed class (lines 465-478).
getNoteEmbedding(plugin) ==
    IF plugin = "not installed" THEN Returned(JsNull)
    ELSE IF plugin = "no api" THEN Returned(JsNull)
    ELSE LET call == ApiGetNoteEmbedding(plugin)
         IN  IF call.thrown THEN Returned(JsNull) ELSE call

-----------------------------------------------------------------------------
(* The stores on disk and the notes looked up.                             *)

NoteA == << "a", ".", "m", "d" >>
NoteASpace == << "a", " ", "m", "d" >>
NoteB == << "b", ".", "m", "d" >>

\* One line of a store: "key": value,
Entry(key, valueText) ==
    JsonString(key) \o << ":", " " >> \o valueText \o << ",", "\n" >>

\* { "embeddings": { model: { "vec": vecText } } }
EmbeddingsText(model, vecText) ==
    JsonObject(<< << K_embeddings,
                     JsonObject(<< << model,
                                      JsonObject(<< << K_vec, vecText >> >>)
                                   >> >>) >> >>)

VecText(v) == JsonArray([i \in 1..Len(v) |-> JsonNumber(v[i])])

SourceEntry(filePath, v) ==
    Entry(SmartSourcesPrefix \o filePath,
          EmbeddingsText(EmbeddingModel, VecText(v)))

\* Contents of the store a_md.ajson, shared by the notes "a.md" and "a md".
StoreTextsA ==
    { SourceEntry(NoteA, << 1, 0 >>),
      SourceEntry(NoteA, << 1, 0 >>) \o SourceEntry(NoteASpace, << 1, 1 >>),
      \* a block whose text holds braces, then the source
      Entry(SmartBlocksPrefix \o NoteA \o << "#", "h" >>,
            JsonObject(<< << << "t" >>, JsonString(<< "}", "{" >>) >> >>))
        \o SourceEntry(NoteA, << 1, 0 >>),
      \* a value that is not JSON, then a good entry
      Entry(SmartSourcesPrefix \o NoteA, << "{", "o", "o", "p", "s", "}" >>)
        \o SourceEntry(NoteASpace, << 1, 1 >>),
      \* a value cut off inside its object, then a good entry
      JsonString(SmartSourcesPrefix \o NoteA)
        \o << ":", " ", "{", Quote, "x", Quote, ":", "{", "\n" >>
        \o SourceEntry(NoteASpace, << 1, 1 >>),
      \* the same key twice
      SourceEntry(NoteA, << 1, 0 >>) \o SourceEntry(NoteA, << -1, 1 >>),
      << >>,
      Entry(SmartSourcesPrefix \o NoteA,
            JsonObject(<< << << "p" >>, JsonString(NoteA) >> >>)),
      Entry(SmartSourcesPrefix \o NoteA,
            EmbeddingsText(<< "m" >>, VecText(<< 1, 0 >>))),
      Entry(SmartSourcesPrefix \o NoteA,
            EmbeddingsText(EmbeddingModel, JsonString(<< "v" >>))),
      Entry(SmartSourcesPrefix \o NoteA,
            EmbeddingsText(EmbeddingModel, JsonNull)) }

StoreTextB == SourceEntry(NoteB, << 0, -1 >>)

\* The .smart-env/multi folders of the model: each store present or not.
Disks ==
    LET a == pathToAjsonFileName(NoteA)
        b == pathToAjsonFileName(NoteB)
    IN  { [n \in { a } |-> t] : t \in StoreTextsA }
        \cup { [n \in { a, b } |-> IF n = a THEN t ELSE StoreTextB] :
                 t \in StoreTextsA }
        \cup { [n \in { b } |-> StoreTextB] }

Notes == { NoteA, NoteASpace, NoteB }

-----------------------------------------------------------------------------
(* SmartConnectionsService as a state machine (SpecStore).                 *)

MaxLookups == 3

NoLookup ==
    [n |-> 0, op |-> "none", file |-> << >>, out |-> Returned(JsNull),
     available |-> FALSE, read |-> FALSE, cached |-> FALSE, stale |-> FALSE]

\* No embedding service: the state of the service in the other
\* specifications.
StoreIdle ==
    /\ scPlugin = "not installed"
    /\ multiFolder = "missing"
    /\ disk = << >>
    /\ isAvailable = FALSE
    /\ ajsonCache = << >>
    /\ elapsed = {}
    /\ reads = 0
    /\ lookup = NoLookup

\* A constructed service (lines 78-85) in a vault: the plugin of some kind,
\* the folder .smart-env/multi missing, empty, or holding stores.
StoreInit ==
    /\ scPlugin \in PluginKinds
    /\ \/ multiFolder = "missing" /\ disk = << >>
       \/ multiFolder = "exists" /\ disk \in Disks \cup { << >> }
    /\ isAvailable = FALSE
    /\ ajsonCache = << >>
    /\ elapsed = {}
    /\ reads = 0
    /\ lookup = NoLookup

\* initialize (lines 91-115).
Initialize ==
    /\ isAvailable' =
         IF scPlugin = "not installed" THEN FALSE
         ELSE IF multiFolder = "missing" THEN FALSE   \* list throws: catch
         ELSE DOMAIN disk # {}                        \* files.length > 0
    /\ UNCHANGED << scPlugin, multiFolder, disk, ajsonCache, elapsed, reads,
                    lookup >>

\* One call of getFileEmbedding(file), start to end.
GetFileEmbedding ==
    /\ lookup.n < MaxLookups
    /\ \E filePath \in Notes :
       \E call \in { getFileEmbedding(filePath, isAvailable, ajsonCache, disk) } :
         LET name == pathToAjsonFileName(filePath)
         IN  /\ ajsonCache' = call.cache
             /\ reads' = IF call.read THEN reads + 1 ELSE reads
             /\ elapsed' = IF call.read THEN elapsed \ { name } ELSE elapsed
             /\ lookup' = [n      |-> lookup.n + 1,
                           op     |-> "getFileEmbedding",
                           file   |-> filePath,
                           out    |-> call.out,
                           available |-> isAvailable,
                           read   |-> call.read,
                           cached |-> isAvailable /\ name \in DOMAIN ajsonCache,
                           stale  |-> isAvailable /\ name \in elapsed]
    /\ UNCHANGED << scPlugin, multiFolder, disk, isAvailable >>

\* One call of the plugin-backed getNoteEmbedding(file), start to end.
GetNoteEmbedding ==
    /\ lookup.n < MaxLookups
    /\ \E filePath \in Notes :
         lookup' = [n      |-> lookup.n + 1,
                    op     |-> "getNoteEmbedding",
                    file   |-> filePath,
                    out    |-> getNoteEmbedding(scPlugin),
                    available |-> scPlugin # "not installed",
                    read   |-> FALSE,
                    cached |-> FALSE,
                    stale  |-> FALSE]
    /\ UNCHANGED << scPlugin, multiFolder, disk, isAvailable, ajsonCache,
                    elapsed, reads >>

\* Time passes: the freshness window (five minutes) has elapsed since the
\* store was cached.
FreshnessWindowElapses ==
    /\ \E name \in DOMAIN ajsonCache \ elapsed : elapsed' = elapsed \cup { name }
    /\ UNCHANGED << scPlugin, multiFolder, disk, isAvailable, ajsonCache,
                    reads, lookup >>

-----------------------------------------------------------------------------
(* SmartConnectionsService: folder centroids and coherence (SpecCentroid). *)

\* vec[i] || 0 for a vector of integer-valued numbers (i counted from 1).
ElementOrZero(vec, i) == IF i <= Len(vec.arr) THEN vec.arr[i].num.a ELSE 0

\* cosineSimilarity of the service (lines 233-260).
scCosineSimilarity(vecA, vecB) ==
    IF ~Truthy(vecA) \/ ~Truthy(vecB) \/ Len(vecA.arr) # Len(vecB.arr)
    THEN Zero
    ELSE LET n     == Len(vecA.arr)
             dot   == SumTo([i \in 1..n |-> ElementOrZero(vecA, i) * ElementOrZero(vecB, i)], n)
             magA2 == SumTo([i \in 1..n |-> ElementOrZero(vecA, i) * ElementOrZero(vecA, i)], n)
             magB2 == SumTo([i \in 1..n |-> ElementOrZero(vecB, i) * ElementOrZero(vecB, i)], n)
         IN  IF magA2 = 0 \/ magB2 = 0
             THEN Zero
             ELSE Real(0, dot, magA2 * magB2, 1)

\* A validity test that accepts every embedding that is not null.
IsValidEmbedding_nonNull(embedding) == Truthy(embedding)

\* embedding && Array.isArray(embedding) && embedding.length > 0 (line 287)
IsValidEmbedding(embedding) ==
    Truthy(embedding) /\ embedding.t = "array" /\ Len(embedding.arr) > 0

\* Lines 297-310: the average of the collected embeddings, with the
\* dimension of the first one.
Average(embeddings) ==
    LET dim   == Len(embeddings[1].arr)
        count == Len(embeddings)
    IN  JsArray([i \in 1..dim |->
                    JsNumber(Rat(SumTo([k \in 1..count |->
                                           ElementOrZero(embeddings[k], i)], count),
                                 count))])

\* The default of calculateCoherence.
DefaultCoherence == Rat(7, 10)

\* The embeddings calculateCoherence collects from files[1..n] (lines
\* 367-371), with the cache afterwards and the number of files read.
RECURSIVE CollectEmbeddings(_, _, _, _)
CollectEmbeddings(files, n, cache, store) ==
    IF n = 0 THEN [embeddings |-> << >>, cache |-> cache, reads |-> 0]
    ELSE LET After(prev) ==
               LET Add(call) ==
                      [embeddings |-> IF Truthy(call.out.val)
                                      THEN Append(prev.embeddings, call.out.val)
                                      ELSE prev.embeddings,
                       cache      |-> call.cache,
                       reads      |-> prev.reads + (IF call.read THEN 1 ELSE 0)]
               IN  Let(Add, getFileEmbedding(files[n], TRUE, prev.cache, store))
         IN  Let(After, CollectEmbeddings(files, n - 1, cache, store))

\* The pairs i < j of 1..n, in the order of the loops of lines 379-380.
PairsOf(n) == { p \in (1..n) \X (1..n) : p[1] < p[2] }

\* totalSim of lines 376-388 over a set of pairs.
RECURSIVE TotalSim(_, _)
TotalSim(embeddings, pairs) ==
    IF pairs = {} THEN Zero
    ELSE LET p == CHOOSE q \in pairs : TRUE
         IN  RAdd(scCosineSimilarity(embeddings[p[1]], embeddings[p[2]]),
                  TotalSim(embeddings, pairs \ { p }))

\* Lines 373-390 for the collected embeddings.
MeanPairSimilarity(embeddings) ==
    IF Len(embeddings) < 2 THEN DefaultCoherence
    ELSE LET pairs == PairsOf(Len(embeddings))
         IN  RDivInt(TotalSim(embeddings, pairs), Cardinality(pairs))

\* calculateCoherence (lines 363-395): the value returned, the cache
\* afterwards, and the number of files read.
calculateCoherence(files, available, cache, store) ==
    IF ~available \/ Len(files) < 2
    THEN [out |-> DefaultCoherence, cache |-> cache, reads |-> 0]
    ELSE LET Rest(c) == [out   |-> MeanPairSimilarity(c.embeddings),
                         cache |-> c.cache,
                         reads |-> c.reads]
         IN  Let(Rest, CollectEmbeddings(files, Len(files), cache, store))

\* The notes of the folders and the vectors their stores hold.
Note1 == << "1", ".", "m", "d" >>
Note2 == << "2", ".", "m", "d" >>

\* A store with no entry for its note.
OtherEntry == Entry(SmartSourcesPrefix \o << "x" >>, JsonObject(<< >>))

\* What the vault holds for a note: a store with its vector, a store
\* without an entry for it, or no store file.
Holds(v) == [kind |-> "vector", v |-> v]
NoEntry == [kind |-> "no entry", v |-> << >>]
NoFile == [kind |-> "no file", v |-> << >>]

\* The .smart-env/multi folders of the centroid model, by what they hold
\* for the two notes.
VectorPairs ==
    { << Holds(<< 1, 0 >>), Holds(<< 0, 1 >>) >>,
      << Holds(<< 1, 0 >>), Holds(<< 1, 0 >>) >>,
      << Holds(<< 1, 0 >>), Holds(<< -1, 0 >>) >>,
      << Holds(<< 0, 0 >>), Holds(<< 0, 0 >>) >>,
      << Holds(<< 1 >>), Holds(<< 1, 0 >>) >>,
      << Holds(<< 1, 0 >>), Holds(<< >>) >>,
      << Holds(<< 1, 0 >>), NoFile >>,
      << NoEntry, NoEntry >> }

StoreOf(filePath, held) ==
    IF held.kind = "no entry" THEN OtherEntry ELSE SourceEntry(filePath, held.v)

CentroidDisks ==
    { [n \in { pathToAjsonFileName(Note1) }
             \cup (IF vs[2].kind = "no file" THEN {}
                   ELSE { pathToAjsonFileName(Note2) }) |->
          IF n = pathToAjsonFileName(Note1) THEN StoreOf(Note1, vs[1])
          ELSE StoreOf(Note2, vs[2])] : vs \in VectorPairs }

FolderF == << "F" >>
FolderG == << "G" >>
FolderPaths == { FolderF, FolderG }

\* The markdown files of each folder, the files argument of
\* calculateFolderCentroid.
FilesOf(folder) == IF folder = FolderF THEN << Note1, Note2 >> ELSE << Note2 >>

\* The files argument of calculateCoherence.
FileLists == { << >>, << Note1 >>, << Note1, Note2 >> }

Tasks == { 1, 2 }
MaxCentroidCalls == 2
MaxCoherenceCalls == 2

NoTask ==
    [pc |-> "idle", folder |-> << >>, files |-> << >>, i |-> 0,
     embeddings |-> << >>, out |-> JsNull, computed |-> FALSE,
     overtaken |-> FALSE]

NoCoherence ==
    [n |-> 0, files |-> << >>, available |-> FALSE, out |-> Zero]

\* No centroid cache, no call in progress.
CentroidIdle ==
    /\ folderCentroids = << >>
    /\ tasks = [t \in Tasks |-> NoTask]
    /\ centroidCalls = 0
    /\ tainted = {}
    /\ invalidated = {}
    /\ coherenceCall = NoCoherence

\* A constructed service in a vault where Smart Connections is installed
\* or not, with the stores of the two notes.
CentroidInit ==
    /\ scPlugin \in { "not installed", "api absent" }
    /\ multiFolder = "exists"
    /\ disk \in CentroidDisks
    /\ isAvailable = FALSE
    /\ ajsonCache = << >>
    /\ elapsed = {}
    /\ reads = 0
    /\ lookup = NoLookup
    /\ CentroidIdle

\* Lines 273-276: the cached centroid of the folder, or undefined.
CachedCentroid(cache, folder) ==
    IF folder \in DOMAIN cache THEN Or(cache[folder], JsNull) ELSE JsUndefined

\* calculateFolderCentroid is called (lines 267-280): unavailable service,
\* cache hit, or the loop over the files begins.
CentroidCall(t) ==
    /\ tasks[t].pc \in { "idle", "done" }
    /\ centroidCalls < MaxCentroidCalls
    /\ centroidCalls' = centroidCalls + 1
    /\ \E folder \in FolderPaths :
         LET call == [NoTask EXCEPT !.folder = folder, !.files = FilesOf(folder)]
         IN  /\ invalidated' = invalidated \ { folder }
             /\ tasks' = [tasks EXCEPT ![t] =
                    IF ~isAvailable
                    THEN [call EXCEPT !.pc = "done"]
                    ELSE IF CachedCentroid(folderCentroids, folder) # JsUndefined
                    THEN [call EXCEPT !.pc = "done",
                                      !.out = CachedCentroid(folderCentroids, folder)]
                    ELSE [call EXCEPT !.pc = "loop", !.i = 1, !.computed = TRUE]]
    /\ UNCHANGED << storeVars, folderCentroids, tainted, coherenceCall >>

\* Lines 287-289: a fetched embedding is pushed when it is valid.  In
\* position "loop" the call waits to be resumed after the await of line
\* 284, in position "reading" for the read of a store file.
Collected(task, embedding) ==
    [task EXCEPT !.pc = "loop",
                 !.i = @ + 1,
                 !.embeddings = IF IsValidEmbedding(embedding)
                                THEN Append(@, embedding) ELSE @]

\* Line 284, getFileEmbedding(file) up to its await: the store is in the
\* cache and the embedding comes from it, or the read of the store file is
\* issued.
CentroidFetch(t) ==
    /\ tasks[t].pc = "loop"
    /\ tasks[t].i <= Len(tasks[t].files)
    /\ LET filePath == tasks[t].files[tasks[t].i]
           name     == pathToAjsonFileName(filePath)
       IN  IF isAvailable /\ name \notin DOMAIN ajsonCache
           THEN /\ tasks' = [tasks EXCEPT ![t].pc = "reading"]
                /\ reads' = reads + 1
                /\ UNCHANGED ajsonCache
           ELSE /\ \E call \in { getFileEmbedding(filePath, isAvailable,
                                                  ajsonCache, disk) } :
                      tasks' = [tasks EXCEPT ![t] = Collected(@, call.out.val)]
                /\ UNCHANGED << reads, ajsonCache >>
    /\ UNCHANGED << scPlugin, multiFolder, disk, isAvailable, elapsed, lookup,
                    folderCentroids, centroidCalls, tainted, invalidated,
                    coherenceCall >>

\* The read issued by loadAjsonFile settles (lines 142-157) and
\* getFileEmbedding returns (lines 210-222).
CentroidRead(t) ==
    /\ tasks[t].pc = "reading"
    /\ LET filePath == tasks[t].files[tasks[t].i]
           name     == pathToAjsonFileName(filePath)
       IN  \E loaded \in { readAndParse(name, ajsonCache, disk) } :
              /\ ajsonCache' = loaded.cache
              /\ tasks' = [tasks EXCEPT ![t] =
                    Collected(@, IF ~Truthy(loaded.ret) THEN JsNull
                                 ELSE extractEmbeddingFromAjson(loaded.ret,
                                                                filePath))]
    /\ UNCHANGED << scPlugin, multiFolder, disk, isAvailable, elapsed, reads,
                    lookup, folderCentroids, centroidCalls, tainted,
                    invalidated, coherenceCall >>

\* A cache write that adds the new centroid to the entry already there.
SetCentroid_accumulate(cache, folder, centroid) ==
    [p \in DOMAIN cache \cup { folder } |->
        IF p # folder THEN cache[p]
        ELSE IF folder \in DOMAIN cache /\ Len(cache[folder].arr) = Len(centroid.arr)
        THEN JsArray([i \in 1..Len(centroid.arr) |->
                         JsNumber(RAdd(cache[folder].arr[i].num, centroid.arr[i].num))])
        ELSE centroid]

\* Line 313, this.folderCentroids.set(folder.path, centroid).
SetCentroid(cache, folder, centroid) ==
    [p \in DOMAIN cache \cup { folder } |->
        IF p = folder THEN centroid ELSE cache[p]]

\* Lines 292-316: without embeddings null is returned; otherwise the
\* average is stored under the folder path and returned.
CentroidReturn(t) ==
    /\ tasks[t].pc = "loop"
    /\ tasks[t].i > Len(tasks[t].files)
    /\ IF Len(tasks[t].embeddings) = 0
       THEN /\ tasks' = [tasks EXCEPT ![t].pc = "done", ![t].out = JsNull]
            /\ UNCHANGED << folderCentroids, tainted >>
       ELSE \E centroid \in { Average(tasks[t].embeddings) } :
              LET folder == tasks[t].folder
              IN  /\ tasks' = [tasks EXCEPT ![t].pc = "done", ![t].out = centroid]
                  /\ folderCentroids' = SetCentroid(folderCentroids, folder, centroid)
                  /\ tainted' = IF tasks[t].overtaken
                                THEN tainted \cup { folder }
                                ELSE tainted \ { folder }
    /\ UNCHANGED << storeVars, centroidCalls, invalidated, coherenceCall >>

\* One call of calculateCoherence(files), start to end.
CalculateCoherence ==
    /\ coherenceCall.n < MaxCoherenceCalls
    /\ \E files \in FileLists :
       \E call \in { calculateCoherence(files, isAvailable, ajsonCache, disk) } :
          /\ coherenceCall' = [n |-> coherenceCall.n + 1, files |-> files,
                               available |-> isAvailable, out |-> call.out]
          /\ ajsonCache' = call.cache
          /\ reads' = reads + call.reads
    /\ UNCHANGED << scPlugin, multiFolder, disk, isAvailable, elapsed, lookup,
                    folderCentroids, tasks, centroidCalls, tainted,
                    invalidated >>

\* clearCache (lines 400-404).  A centroid call that holds embeddings while
\* the caches are emptied has been overtaken by the invalidation.
ClearCache ==
    /\ folderCentroids' = << >>
    /\ ajsonCache' = << >>
    /\ elapsed' = {}
    /\ tainted' = {}
    /\ invalidated' = FolderPaths
    /\ tasks' = [t \in Tasks |->
                    IF tasks[t].pc \in { "loop", "reading" }
                       /\ Len(tasks[t].embeddings) > 0
                    THEN [tasks[t] EXCEPT !.overtaken = TRUE]
                    ELSE tasks[t]]
    /\ UNCHANGED << scPlugin, multiFolder, disk, isAvailable, reads, lookup,
                    centroidCalls, coherenceCall >>

-----------------------------------------------------------------------------
(* VaultArchitectPlugin.classifyFolder, one batch (SpecBatch).             *)

\* v >= n for a number n; undefined is NaN and null is 0 under ToNumber.
JsAtLeast(v, n) ==
    CASE v.t = "number"    -> RLeq(Int2Real(n), v.num)
      [] v.t = "undefined" -> FALSE
      [] v.t = "null"      -> 0 >= n
      [] v.t = "boolean"   -> (IF v.bool THEN 1 ELSE 0) >= n

\* this.settings.confidenceThreshold
confidenceThreshold == 70

\* recommendFolder(noteData, vaultStructure): no embedding is passed, so
\* the call is the adapter call followed by the parse.
recommendFolder(outcome, text, profiles) ==
    IF outcome # "ok" THEN [ok |-> FALSE, error |-> "transport error"]
    ELSE LET r == parseRecommendationResponse(text, profiles)
         IN  IF r.ok THEN r ELSE [ok |-> FALSE, error |-> "parse error"]

\* The replies the adapter gives for the notes of a batch: a confident
\* recommendation for another folder, one below the threshold, one for the
\* folder being classified, one without confidence, and a reply without a
\* primary recommendation.
BatchReplies ==
    { ReplyText(<< RecommendationText(<< << K_folderPath, Projects >> >>,
                                      Confidence(90), << >>) >>, << >>, << >>),
      ReplyText(<< RecommendationText(<< << K_folderPath, Projects >> >>,
                                      Confidence(50), << >>) >>, << >>, << >>),
      ReplyText(<< RecommendationText(<< << K_folderPath, Inbox >> >>,
                                      Confidence(90), << >>) >>, << >>, << >>),
      ReplyText(<< RecommendationText(<< << K_folderPath, Projects >> >>,
                                      JsUndefined, << >>) >>, << >>, << >>),
      JsonObject(<< >>) }

\* A child of the folder: its extension, and how the adapter call made for
\* it settles.
Children ==
    { [extension |-> "png", outcome |-> "ok", text |-> << >>],
      [extension |-> "md", outcome |-> "http error", text |-> << >>] }
    \cup { [extension |-> "md", outcome |-> "ok", text |-> t] : t \in BatchReplies }

MaxChildren == 3

ChildLists == UNION { [1..n -> Children] : n \in 0..MaxChildren }

\* folder.children.filter(f => f instanceof TFile && f.extension === 'md'):
\* the positions of the markdown files, in order.
RECURSIVE MarkdownFiles(_, _)
MarkdownFiles(children, n) ==
    IF n = 0 THEN << >>
    ELSE MarkdownFiles(children, n - 1)
         \o (IF children[n].extension = "md" THEN << n >> ELSE << >>)

NoBatch ==
    [pc |-> "idle", children |-> << >>, files |-> << >>, i |-> 0,
     analysed |-> << >>, submitted |-> << >>, failed |-> {},
     proposedMoves |-> << >>, message |-> "none"]

BatchIdle == batch = NoBatch

\* classifyFolder('Inbox') is called on a folder with the given children.
BatchInit ==
    \E children \in ChildLists :
        batch = [NoBatch EXCEPT !.pc = "called", !.children = children]

\* Lines 178-191: the markdown files are selected; without any the run
\* ends with a message.
ClassifyFolderCall ==
    /\ batch.pc = "called"
    /\ LET files == MarkdownFiles(batch.children, Len(batch.children))
       IN  batch' = IF Len(files) = 0
                    THEN [batch EXCEPT !.pc = "done",
                                       !.message = "No markdown files to classify."]
                    ELSE [batch EXCEPT !.pc = "looping", !.files = files, !.i = 1]

\* A batch that ends at the first failing file.
AfterFailure_abort(b, file) ==
    [b EXCEPT !.pc = "done", !.failed = @ \cup { file },
              !.message = "Classification failed"]

\* The catch of lines 211-213: the failure is logged and the loop goes on.
AfterFailure(b, file) ==
    [b EXCEPT !.i = @ + 1, !.failed = @ \cup { file }]

\* Lines 201-210: the primary recommendation becomes a proposed move when
\* its confidence reaches the threshold and it names another folder.
AfterRecommendation(b, file, recommendation) ==
    LET primary == recommendation.primaryRecommendation
    IN  [b EXCEPT !.i = @ + 1,
                  !.proposedMoves =
                      IF JsAtLeast(primary.confidence, confidenceThreshold)
                         /\ primary.folderPath # JsString(Inbox)
                      THEN Append(@, [file        |-> file,
                                      destination |-> primary.folderPath,
                                      confidence  |-> primary.confidence,
                                      reasoning   |-> primary.reasoning,
                                      selected    |-> TRUE])
                      ELSE @]

\* One iteration of the loop of lines 196-214: the note is analysed and
\* submitted, and the recommendation or its failure is handled.
ClassifyFile ==
    /\ batch.pc = "looping"
    /\ batch.i <= Len(batch.files)
    /\ LET file  == batch.files[batch.i]
           child == batch.children[file]
           b     == [batch EXCEPT !.analysed = Append(@, file),
                                  !.submitted = Append(@, file)]
       IN  \E recommendation \in
                 { recommendFolder(child.outcome, child.text, << StandardProjects >>) } :
              batch' = IF recommendation.ok
                       THEN AfterRecommendation(b, file, recommendation.val)
                       ELSE AfterFailure(b, file)

\* Lines 216-228: without proposed moves a message is shown, otherwise the
\* preview modal is opened.
ClassifyFolderFinish ==
    /\ batch.pc = "looping"
    /\ batch.i > Len(batch.files)
    /\ batch' = [batch EXCEPT
                    !.pc = "done",
                    !.message = IF Len(batch.proposedMoves) = 0
                                THEN "No recommendations found above threshold."
                                ELSE "preview"]

-----------------------------------------------------------------------------
(* LLMCoordinator.recommendFolder, one request.                            *)

NoResult == [ok |-> FALSE]

\* Outcomes of OpenAIAdapter.call.
AdapterFailures == { "no api key", "http error", "fetch failed", "no choice" }

Request(profiles, embedding, outcome, text, body) ==
    /\ pc = "built"
    /\ folderProfiles = profiles
    /\ currentFileEmbedding = embedding
    /\ adapterOutcome = outcome
    /\ content = text
    /\ bare = body
    /\ parsed = NoResult
    /\ result = NoResult
    /\ error = "none"
    /\ adapterCalls = 0
    /\ blendCall = NoBlendCall
    /\ StoreIdle
    /\ BatchIdle
    /\ CentroidIdle

Init ==
    \/ \E profiles \in FusionProfileLists, embedding \in FusionEmbeddings,
          text \in FusionReplies :
         Request(profiles, embedding, "ok", text, text)
    \/ \E profiles \in ParserProfileLists, embedding \in ParserEmbeddings,
          text \in ParserReplies :
         Request(profiles, embedding, "ok", text, text)
    \/ \E profiles \in ParserProfileLists, embedding \in ParserEmbeddings,
          body \in WrappedBodies :
         \E w \in Wrappings(body) :
            Request(profiles, embedding, "ok", w.text, body)
    \/ \E failure \in AdapterFailures :
         Request(<< StandardProjects >>, JsArray(<< 1, 0 >>), failure,
                 << >>, << >>)

\* Lines 29-51: the prompts are built and openaiAdapter.call is awaited.
RecommendFolderCall ==
    /\ pc = "built"
    /\ pc' = "awaiting"
    /\ adapterCalls' = adapterCalls + 1
    /\ UNCHANGED << blendCall, folderProfiles, currentFileEmbedding,
                    adapterOutcome, content, bare, parsed, result, error >>

\* A recommendFolder that calls the adapter again after a rejection.
RecommendFolderRejected_retry ==
    /\ pc = "awaiting"
    /\ adapterOutcome # "ok"
    /\ pc' = IF adapterCalls < 2 THEN "built" ELSE "failed"
    /\ error' = IF adapterCalls < 2 THEN error ELSE "adapter"
    /\ UNCHANGED << blendCall, folderProfiles, currentFileEmbedding,
                    adapterOutcome, content, bare, parsed, result,
                    adapterCalls >>

\* The adapter's promise rejects; recommendFolder has no catch.
RecommendFolderRejected ==
    /\ pc = "awaiting"
    /\ adapterOutcome # "ok"
    /\ pc' = "failed"
    /\ error' = "adapter"
    /\ UNCHANGED << blendCall, folderProfiles, currentFileEmbedding,
                    adapterOutcome, content, bare, parsed, result,
                    adapterCalls >>

\* Line 54 throws.
RecommendFolderParseError ==
    /\ pc = "awaiting"
    /\ adapterOutcome = "ok"
    /\ ~parseRecommendationResponse(content, folderProfiles).ok
    /\ pc' = "failed"
    /\ error' = "parse"
    /\ UNCHANGED << blendCall, folderProfiles, currentFileEmbedding,
                    adapterOutcome, content, bare, parsed, result,
                    adapterCalls >>

\* Lines 54-66: the reply is parsed, fused when a non-empty embedding was
\* supplied, and returned.
RecommendFolderReturn ==
    /\ pc = "awaiting"
    /\ adapterOutcome = "ok"
    /\ LET r == parseRecommendationResponse(content, folderProfiles)
       IN  /\ r.ok
           /\ parsed' = r
           /\ result' =
                IF Truthy(currentFileEmbedding)
                   /\ Len(currentFileEmbedding.arr) > 0
                THEN [ok |-> TRUE,
                      val |-> scoreRecommendationsWithEmbeddings(
                                  r.val, currentFileEmbedding, folderProfiles)]
                ELSE r
    /\ pc' = "returned"
    /\ UNCHANGED << blendCall, folderProfiles, currentFileEmbedding,
                    adapterOutcome, content, bare, error, adapterCalls >>

Next ==
    \/ RecommendFolderCall /\ UNCHANGED << storeVars, batchVars, centroidVars >>
    \/ RecommendFolderRejected /\ UNCHANGED << storeVars, batchVars, centroidVars >>
    \/ RecommendFolderParseError /\ UNCHANGED << storeVars, batchVars, centroidVars >>
    \/ RecommendFolderReturn /\ UNCHANGED << storeVars, batchVars, centroidVars >>

Spec == Init /\ [][Next]_vars

-----------------------------------------------------------------------------
(* SpecBlend: the blend function alone.                                    *)

NoRequest ==
    /\ pc = "idle"
    /\ folderProfiles = << >>
    /\ currentFileEmbedding = JsUndefined
    /\ adapterOutcome = "ok"
    /\ content = << >>
    /\ bare = << >>
    /\ parsed = NoResult
    /\ result = NoResult
    /\ error = "none"
    /\ adapterCalls = 0

InitBlend == BlendInit /\ NoRequest /\ StoreIdle /\ BatchIdle /\ CentroidIdle

NextBlend ==
    \/ BlendApply /\ UNCHANGED << pc, folderProfiles, currentFileEmbedding,
                                  adapterOutcome, content, bare, parsed,
                                  result, error, adapterCalls, storeVars,
                                  batchVars, centroidVars >>
    \/ BlendAgain /\ UNCHANGED << pc, folderProfiles, currentFileEmbedding,
                                  adapterOutcome, content, bare, parsed,
                                  result, error, adapterCalls, storeVars,
                                  batchVars, centroidVars >>

SpecBlend == InitBlend /\ [][NextBlend]_vars

-----------------------------------------------------------------------------
(* SpecStore: the embedding service alone.                                 *)

InitStore ==
    StoreInit /\ NoRequest /\ blendCall = NoBlendCall /\ BatchIdle /\ CentroidIdle

NextStore ==
    \/ Initialize /\ UNCHANGED << requestVars, batchVars, centroidVars >>
    \/ GetFileEmbedding /\ UNCHANGED << requestVars, batchVars, centroidVars >>
    \/ GetNoteEmbedding /\ UNCHANGED << requestVars, batchVars, centroidVars >>
    \/ FreshnessWindowElapses /\ UNCHANGED << requestVars, batchVars, centroidVars >>
    \/ ClearCache /\ UNCHANGED << requestVars, batchVars >>

SpecStore == InitStore /\ [][NextStore]_vars

-----------------------------------------------------------------------------
(* SpecCentroid: centroids and coherence of the embedding service.         *)

InitCentroid ==
    CentroidInit /\ NoRequest /\ blendCall = NoBlendCall /\ BatchIdle

NextCentroid ==
    \/ Initialize /\ UNCHANGED << requestVars, batchVars, centroidVars >>
    \/ (\E t \in Tasks : CentroidCall(t)) /\ UNCHANGED << requestVars, batchVars >>
    \/ (\E t \in Tasks : CentroidFetch(t)) /\ UNCHANGED << requestVars, batchVars >>
    \/ (\E t \in Tasks : CentroidRead(t)) /\ UNCHANGED << requestVars, batchVars >>
    \/ (\E t \in Tasks : CentroidReturn(t)) /\ UNCHANGED << requestVars, batchVars >>
    \/ ClearCache /\ UNCHANGED << requestVars, batchVars >>

SpecCentroid == InitCentroid /\ [][NextCentroid]_vars

-----------------------------------------------------------------------------
(* SpecCoherence: calculateCoherence of the embedding service.             *)

NextCoherence ==
    \/ Initialize /\ UNCHANGED << requestVars, batchVars, centroidVars >>
    \/ CalculateCoherence /\ UNCHANGED << requestVars, batchVars >>
    \/ ClearCache /\ UNCHANGED << requestVars, batchVars >>

SpecCoherence == InitCentroid /\ [][NextCoherence]_vars

-----------------------------------------------------------------------------
(* SpecBatch: one batch classification.                                    *)

InitBatch ==
    BatchInit /\ NoRequest /\ blendCall = NoBlendCall /\ StoreIdle /\ CentroidIdle

NextBatch ==
    \/ ClassifyFolderCall /\ UNCHANGED << requestVars, storeVars, centroidVars >>
    \/ ClassifyFile /\ UNCHANGED << requestVars, storeVars, centroidVars >>
    \/ ClassifyFolderFinish /\ UNCHANGED << requestVars, storeVars, centroidVars >>

SpecBatch == InitBatch /\ [][NextBatch]_vars

-----------------------------------------------------------------------------
(* Properties                                                              *)

\* The recommendations of a result: the primary, then the alternatives.
Recs(r) == << r.primaryRecommendation >> \o r.alternatives

\* recommendFolder ran the fusion step (line 58).
FusionRan ==
    /\ pc = "returned"
    /\ currentFileEmbedding.t = "array"
    /\ Len(currentFileEmbedding.arr) > 0

\* The profiles of the folder a recommendation points to.
TargetProfiles(rec) ==
    { i \in 1..Len(folderProfiles) : folderProfiles[i].folderPath = rec.folderPath }

HasCentroid(profile) ==
    profile.hasValidCentroid /\ profile.folderCentroid.t = "array"

Dot(u, v) == SumTo([i \in 1..Len(u) |-> u[i] * v[i]], Len(u))

\* n is y rounded to the nearest integer, halves upwards.
IsRoundOf(n, y) ==
    /\ RLeq(Rat(2 * n - 1, 2), y)
    /\ RLess(y, Rat(2 * n + 1, 2))

Clamp01(x) == IF RLess(x, Zero) THEN Zero ELSE IF RLess(One, x) THEN One ELSE x

\* enhancedConfidence of rec is the rounded, clamped blend of its confidence
\* with the cosine of embedding and centroid, weighted by the coherence.
FusedByFormula(rec, profile) ==
    LET u       == currentFileEmbedding.arr
        v       == profile.folderCentroid.arr
        cosine  == Real(0, Dot(u, v), Dot(u, u) * Dot(v, v), 1)
        k       == profile.coherenceScore.num
        blended == RAdd(RMul(Rat(rec.confidence.num.a, 100), RSub(One, k)),
                        RMul(cosine, k))
    IN  /\ rec.similarity = JsNumber(cosine)
        /\ rec.enhancedConfidence.t = "number"
        /\ rec.enhancedConfidence.num.b = 0
        /\ rec.enhancedConfidence.num.d = 1
        /\ IsRoundOf(rec.enhancedConfidence.num.a,
                     RMul(Clamp01(blended), Int2Real(100)))

\* C1: every recommendation with a numeric confidence whose folder has a
\* valid, non-zero centroid of the embedding's dimension gets
\* enhancedConfidence = round(100 * clamp01(confidence/100 * (1 - coherence)
\* + similarity * coherence)), for every coherence in [0,1], 0 and 1 included.
C1_FusionFormulaAllCoherences ==
    FusionRan =>
        \A i \in 1..Len(Recs(result.val)) :
            LET rec == Recs(result.val)[i]
            IN  \A p \in TargetProfiles(rec) :
                    LET profile == folderProfiles[p]
                    IN  ( /\ HasCentroid(profile)
                          /\ rec.confidence.t = "number"
                          /\ Len(profile.folderCentroid.arr)
                                = Len(currentFileEmbedding.arr)
                          /\ Dot(profile.folderCentroid.arr,
                                 profile.folderCentroid.arr) > 0
                          /\ Dot(currentFileEmbedding.arr,
                                 currentFileEmbedding.arr) > 0 )
                        => FusedByFormula(rec, profile)

\* C2: blendConfidenceScores returns a value in [0,1] for every judgment
\* confidence in [0,1], similarity in [-1,1] and coherence in [0,1].
C2_BlendInUnitInterval ==
    blendCall.phase \in { "applied", "again" } =>
        /\ RLeq(Zero, blendCall.out)
        /\ RLeq(blendCall.out, One)

\* A call whose unclamped blend is negative returned 0.
C2_Witness ==
    /\ blendCall.phase = "applied"
    /\ RLess(blendCall.similarity, Zero)
    /\ blendCall.llmConfidence = Zero
    /\ blendCall.coherence = One
    /\ blendCall.out = Zero

InUnit(x) == RLeq(Zero, x) /\ RLeq(x, One)

\* C3: with coherence 0 the blend is the judgment confidence, with coherence
\* 1 it is the similarity, and between two calls that differ only in
\* coherence the result does not decrease with coherence when similarity >
\* confidence and does not increase when similarity < confidence (inputs in
\* [0,1]).
C3_BlendInterpolates ==
    ( /\ blendCall.phase \in { "applied", "again" }
      /\ InUnit(blendCall.llmConfidence)
      /\ InUnit(blendCall.similarity) ) =>
        /\ blendCall.coherence = Zero => blendCall.out = blendCall.llmConfidence
        /\ blendCall.coherence = One => blendCall.out = blendCall.similarity
        /\ ( /\ blendCall.phase = "again"
             /\ RLeq(blendCall.prevCoherence, blendCall.coherence) ) =>
               /\ RLess(blendCall.llmConfidence, blendCall.similarity)
                    => RLeq(blendCall.prevOut, blendCall.out)
               /\ RLess(blendCall.similarity, blendCall.llmConfidence)
                    => RLeq(blendCall.out, blendCall.prevOut)

\* Two calls with rising coherence and similarity above the confidence, the
\* second result strictly larger.
C3_Witness ==
    /\ blendCall.phase = "again"
    /\ InUnit(blendCall.similarity)
    /\ RLess(blendCall.llmConfidence, blendCall.similarity)
    /\ RLess(blendCall.prevCoherence, blendCall.coherence)
    /\ RLess(blendCall.prevOut, blendCall.out)
    /\ blendCall.coherence = One
    /\ blendCall.out = blendCall.similarity

\* The recommendation the parser produced at the same position.
Original(i) == Recs(parsed.val)[i]

\* C4: in fusion, a recommendation whose folder has no valid centroid (no
\* profile, validity flag false, or centroid missing) gets similarity 0.5
\* and enhancedConfidence equal to its original confidence.
C4_NoCentroidNeutralFallback ==
    FusionRan =>
        \A i \in 1..Len(Recs(result.val)) :
            LET rec == Recs(result.val)[i]
            IN  (\A p \in TargetProfiles(rec) : ~HasCentroid(folderProfiles[p]))
                => /\ rec.similarity = JsNumber(Half)
                   /\ rec.enhancedConfidence = Original(i).confidence
                   /\ rec.confidence = Original(i).confidence

\* A primary with confidence 50 whose profile carries a centroid but is
\* flagged invalid, and an alternative whose folder has no profile at all.
C4_Witness ==
    /\ FusionRan
    /\ LET rec == result.val.primaryRecommendation
       IN  /\ rec.confidence = Confidence(50)
           /\ \E p \in TargetProfiles(rec) :
                /\ ~folderProfiles[p].hasValidCentroid
                /\ folderProfiles[p].folderCentroid.t = "array"
           /\ rec.similarity = JsNumber(Half)
           /\ rec.enhancedConfidence = Confidence(50)
    /\ \E i \in 1..Len(result.val.alternatives) :
         /\ TargetProfiles(result.val.alternatives[i]) = {}
         /\ result.val.alternatives[i].similarity = JsNumber(Half)

\* C5: a recommendation whose folder centroid has another dimension than
\* the document embedding gets the neutral fallback: similarity 0.5 and
\* enhancedConfidence equal to its confidence.
C5_DimensionMismatchNeutralFallback ==
    FusionRan =>
        \A i \in 1..Len(Recs(result.val)) :
            LET rec == Recs(result.val)[i]
            IN  \A p \in TargetProfiles(rec) :
                    ( /\ HasCentroid(folderProfiles[p])
                      /\ Len(folderProfiles[p].folderCentroid.arr)
                            # Len(currentFileEmbedding.arr) )
                    => /\ rec.similarity = JsNumber(Half)
                       /\ rec.enhancedConfidence = rec.confidence

\* C6: whenever the call and the parse succeed and a non-empty embedding is
\* supplied, the request returns and the primary and every alternative have
\* similarity and enhancedConfidence set.
C6_EveryCandidateScored ==
    ( /\ pc \in { "returned", "failed" }
      /\ adapterOutcome = "ok"
      /\ parseRecommendationResponse(content, folderProfiles).ok
      /\ currentFileEmbedding.t = "array"
      /\ Len(currentFileEmbedding.arr) > 0 ) =>
        /\ pc = "returned"
        /\ result.ok
        /\ \A i \in 1..Len(Recs(result.val)) :
              /\ Recs(result.val)[i].similarity # JsUndefined
              /\ Recs(result.val)[i].enhancedConfidence # JsUndefined

\* The tier a numeric confidence determines.
Tier(n) == IF n > 80 THEN "strong" ELSE IF n > 60 THEN "moderate" ELSE "weak"

\* C7: the primary's matchStrength follows from its confidence by strict
\* thresholds: > 80 strong, > 60 and <= 80 moderate, <= 60 weak.
C7_PrimaryMatchStrength ==
    pc = "returned" =>
        LET rec == result.val.primaryRecommendation
        IN  rec.confidence.t = "number" =>
                /\ rec.confidence.num.a > 80 => rec.matchStrength = "strong"
                /\ ( rec.confidence.num.a > 60 /\ rec.confidence.num.a <= 80 )
                      => rec.matchStrength = "moderate"
                /\ rec.confidence.num.a <= 60 => rec.matchStrength = "weak"

\* A primary with confidence exactly 80, labelled moderate.
C7_Witness ==
    /\ pc = "returned"
    /\ result.val.primaryRecommendation.confidence = Confidence(80)
    /\ result.val.primaryRecommendation.matchStrength = "moderate"

\* C8: every alternative of a returned result carries the matchStrength its
\* own confidence determines (> 80 strong, > 60 moderate, else weak).
C8_AlternativeMatchStrength ==
    pc = "returned" =>
        \A i \in 1..Len(result.val.alternatives) :
            LET rec == result.val.alternatives[i]
            IN  rec.confidence.t = "number"
                => rec.matchStrength = Tier(rec.confidence.num.a)

\* The reply is JSON whose primaryRecommendation is missing or names no
\* folder under folderPath, folder or folderName.
NoPrimaryFolderIdentifier ==
    LET j == JSONParse(content)
    IN  /\ j.ok
        /\ LET primary == Prop(j.val, K_primaryRecommendation)
           IN  \A key \in { K_folderPath, K_folder, K_folderName } :
                   \/ Prop(primary, key).t # "string"
                   \/ Prop(primary, key).str = << >>

\* C9: a reply that is JSON but has no primaryRecommendation, or a primary
\* without a non-empty folderPath, folder or folderName, ends the request
\* with a parse error and no recommendation.
C9_MissingIdentifierIsParseError ==
    ( /\ pc \in { "returned", "failed" }
      /\ adapterOutcome = "ok"
      /\ NoPrimaryFolderIdentifier ) =>
        /\ pc = "failed"
        /\ error = "parse"
        /\ result = NoResult

\* content holds bare with text around it.
Wraps(text, body) ==
    /\ text # body
    /\ \E k \in 1..(Len(text) - Len(body) + 1) :
          SubSeq(text, k, k + Len(body) - 1) = body

\* C10: a valid recommendation object wrapped in markdown fences or prose is
\* extracted and gives the recommendation the bare object gives.
C10_WrappedReplyRecovered ==
    ( /\ pc \in { "returned", "failed" }
      /\ adapterOutcome = "ok"
      /\ Wraps(content, bare)
      /\ parseRecommendationResponse(bare, folderProfiles).ok ) =>
        /\ pc = "returned"
        /\ parsed = parseRecommendationResponse(bare, folderProfiles)

\* The request is over.
Ended == pc \in { "returned", "failed" }

\* C11: a request calls the adapter exactly once; when that call rejects or
\* the reply does not parse, the request ends with an error, nothing was
\* parsed into a result or fused, and no result is returned.
C11_SingleCallNoRetry ==
    /\ adapterCalls <= 1
    /\ Ended => adapterCalls = 1
    /\ ( /\ Ended
         /\ \/ adapterOutcome # "ok"
            \/ ~parseRecommendationResponse(content, folderProfiles).ok ) =>
           /\ pc = "failed"
           /\ error = IF adapterOutcome # "ok" THEN "adapter" ELSE "parse"
           /\ parsed = NoResult
           /\ result = NoResult

\* A request whose adapter call found no choice in the response: failed
\* after one call, nothing returned.
C11_Witness ==
    /\ pc = "failed"
    /\ adapterOutcome = "no choice"
    /\ adapterCalls = 1
    /\ error = "adapter"
    /\ result = NoResult

\* C12: a request with an empty folder-profile list ends with a validation
\* error and never calls the adapter.
C12_EmptyProfilesRejected ==
    folderProfiles = << >> =>
        /\ adapterCalls = 0
        /\ Ended => ( pc = "failed" /\ error = "validation" )

\* v is a number in [0,100].
InPercentRange(v) ==
    /\ v.t = "number"
    /\ RLeq(Zero, v.num)
    /\ RLeq(v.num, Int2Real(100))

\* C13: in a returned result every recommendation's numeric confidence is
\* in [0,100], and every enhancedConfidence that fusion set for it is in
\* [0,100].
C13_ConfidenceInPercentRange ==
    pc = "returned" =>
        \A i \in 1..Len(Recs(result.val)) :
            LET rec == Recs(result.val)[i]
            IN  rec.confidence.t = "number" =>
                    /\ InPercentRange(rec.confidence)
                    /\ rec.enhancedConfidence # JsUndefined
                          => InPercentRange(rec.enhancedConfidence)

\* The raw recommendation objects of a reply, primary first.
RawRecs(json) ==
    << Prop(json, K_primaryRecommendation) >>
    \o Or(Prop(json, K_alternatives), JsArray(<< >>)).arr

\* C14: a recommendation (primary or alternative) whose reply object has no
\* confidence member is parsed with confidence 0.
C14_MissingConfidenceIsZero ==
    pc = "returned" =>
        LET raw == RawRecs(JSONParse(content).val)
        IN  \A i \in 1..Len(raw) :
                Prop(raw[i], K_confidence) = JsUndefined
                => Recs(parsed.val)[i].confidence = Confidence(0)

\* v is a non-empty string.
NonEmptyString(v) == v.t = "string" /\ v.str # << >>

\* The first non-empty value of raw under the alias keys folderPath, folder,
\* folderName; JsUndefined when there is none.
FirstAlias(raw) ==
    IF NonEmptyString(Prop(raw, K_folderPath)) THEN Prop(raw, K_folderPath)
    ELSE IF NonEmptyString(Prop(raw, K_folder)) THEN Prop(raw, K_folder)
    ELSE IF NonEmptyString(Prop(raw, K_folderName)) THEN Prop(raw, K_folderName)
    ELSE JsUndefined

\* C15: the folderPath of the primary and of each alternative is the first
\* non-empty value among the reply's folderPath, folder and folderName, in
\* that order.
C15_AliasPriority ==
    pc = "returned" =>
        LET raw == RawRecs(JSONParse(content).val)
        IN  \A i \in 1..Len(raw) :
                FirstAlias(raw[i]) # JsUndefined
                => /\ Recs(parsed.val)[i].folderPath = FirstAlias(raw[i])
                   /\ Recs(result.val)[i].folderPath = FirstAlias(raw[i])

\* An alternative with an empty folderPath, folder "Inbox" and folderName
\* "Projects" is identified by its folder.
C15_Witness ==
    /\ pc = "returned"
    /\ LET raw == RawRecs(JSONParse(content).val)
       IN  \E i \in 2..Len(raw) :
              /\ Prop(raw[i], K_folderPath) = EmptyString
              /\ Prop(raw[i], K_folder) = JsString(Inbox)
              /\ Prop(raw[i], K_folderName) = JsString(Projects)
              /\ Recs(result.val)[i].folderPath = JsString(Inbox)

\* The enhancedConfidence processRec computes from a confidence, a
\* similarity and a profile's coherence.
EnhancedWith(confidence, similarity, folderData) ==
    JsNumber(Int2Real(MathRound(RMul(
        blendConfidenceScores(RDivInt(confidence.num, 100), similarity,
                              Or(folderData.coherenceScore, JsNumber(Half)).num),
        Int2Real(100)))))

\* C16: a recommendation whose cosine similarity is negative keeps that
\* negative value in similarity, and its enhancedConfidence is the one the
\* same confidence and coherence give with similarity 0.
C16_NegativeSimilarityClamped ==
    FusionRan =>
        \A i \in 1..Len(Recs(result.val)) :
            LET rec   == Recs(result.val)[i]
                found == FindProfile(folderProfiles, rec.folderPath)
            IN  ( /\ found # JsUndefined
                  /\ HasCentroid(found.p)
                  /\ rec.confidence.t = "number"
                  /\ RLess(cosineSimilarity(currentFileEmbedding,
                                            found.p.folderCentroid), Zero) )
                => /\ rec.similarity =
                        JsNumber(cosineSimilarity(currentFileEmbedding,
                                                  found.p.folderCentroid))
                   /\ rec.enhancedConfidence =
                        EnhancedWith(rec.confidence, Zero, found.p)

\* C17: after fusion the primary is the recommendation the parser made the
\* primary, and the alternatives are the parser's alternatives in the same
\* number and order (same folder, confidence and reasoning at every
\* position), whatever the enhancedConfidence values are.
C17_FusionKeepsRanking ==
    FusionRan =>
        /\ Len(result.val.alternatives) = Len(parsed.val.alternatives)
        /\ \A i \in 1..Len(Recs(parsed.val)) :
              /\ Recs(result.val)[i].folderPath = Original(i).folderPath
              /\ Recs(result.val)[i].folderName = Original(i).folderName
              /\ Recs(result.val)[i].confidence = Original(i).confidence
              /\ Recs(result.val)[i].reasoning = Original(i).reasoning

\* A fused result whose first alternative has a higher enhancedConfidence
\* than its primary, the primary still being the parser's "Projects".
C17_Witness ==
    /\ FusionRan
    /\ Len(result.val.alternatives) > 0
    /\ result.val.primaryRecommendation.enhancedConfidence.t = "number"
    /\ result.val.alternatives[1].enhancedConfidence.t = "number"
    /\ RLess(result.val.primaryRecommendation.enhancedConfidence.num,
             result.val.alternatives[1].enhancedConfidence.num)
    /\ result.val.primaryRecommendation.folderPath = JsString(Projects)
    /\ parsed.val.primaryRecommendation.folderPath = JsString(Projects)
    /\ result.val.alternatives[1].folderPath = JsString(Inbox)

\* The vector the store on disk holds for a note, or null.
StoredVector(filePath) ==
    LET name == pathToAjsonFileName(filePath)
    IN  IF name \in DOMAIN disk
        THEN extractEmbeddingFromAjson(parseAjsonFile(disk[name]), filePath)
        ELSE JsNull

\* The vector the live provider gives, or null.
LiveVectorOrNull == IF scPlugin = "api vector" THEN LiveVector ELSE JsNull

\* C18: a lookup made by a usable service returns the live provider's
\* vector when it gives one, else the vector the on-disk store holds for
\* the note, and null only when neither has one.
C18_LiveThenOfflineFallback ==
    ( lookup.op # "none" /\ lookup.available ) =>
        lookup.out =
            Returned(IF LiveVectorOrNull # JsNull THEN LiveVectorOrNull
                     ELSE StoredVector(lookup.file))

\* C19: no lookup ends with an exception; when the backend it uses fails
\* (plugin missing, without API or throwing; store missing, malformed or
\* without a vector for the note) the lookup returns null.
C19_LookupNeverThrows ==
    lookup.op # "none" =>
        /\ ~lookup.out.thrown
        /\ ( /\ lookup.op = "getNoteEmbedding"
             /\ scPlugin \in { "not installed", "no api", "api throws" } )
           => lookup.out.val = JsNull
        /\ ( /\ lookup.op = "getFileEmbedding"
             /\ StoredVector(lookup.file) = JsNull )
           => lookup.out.val = JsNull

\* A lookup through a plugin whose API throws returned null.
C19_Witness ==
    /\ lookup.op = "getNoteEmbedding"
    /\ scPlugin = "api throws"
    /\ lookup.out = Returned(JsNull)

\* C20: a lookup that finds its store cached for longer than the freshness
\* window reads the store again instead of serving the cached parse.
C20_StaleEntryReloaded ==
    ( lookup.op = "getFileEmbedding" /\ lookup.cached /\ lookup.stale )
        => lookup.read

\* The fields of a recommendation that fusion leaves alone.
FrameOf(rec) ==
    [folderPath    |-> rec.folderPath,
     folderName    |-> rec.folderName,
     confidence    |-> rec.confidence,
     reasoning     |-> rec.reasoning,
     matchedTopics |-> rec.matchedTopics,
     matchStrength |-> rec.matchStrength]

\* C29: fusion writes only similarity and enhancedConfidence: every
\* recommendation keeps its confidence, matchStrength, folderName and
\* reasoning, the result keeps shouldCreateNewFolder and suggestedNewFolder,
\* and the folder profiles are never modified.
C29_FusionFrame ==
    /\ [](FusionRan =>
            /\ Len(result.val.alternatives) = Len(parsed.val.alternatives)
            /\ \A i \in 1..Len(Recs(parsed.val)) :
                  FrameOf(Recs(result.val)[i]) = FrameOf(Original(i))
            /\ result.val.shouldCreateNewFolder = parsed.val.shouldCreateNewFolder
            /\ result.val.suggestedNewFolder = parsed.val.suggestedNewFolder)
    /\ [][folderProfiles' = folderProfiles]_vars

\* A fused primary whose enhancedConfidence lies in another tier than its
\* confidence, its matchStrength being the tier of the confidence.
C29_Witness ==
    /\ FusionRan
    /\ LET rec == result.val.primaryRecommendation
       IN  /\ rec.confidence.t = "number"
           /\ rec.enhancedConfidence.t = "number"
           /\ IsRational(rec.enhancedConfidence.num)
           /\ rec.enhancedConfidence.num.d = 1
           /\ Tier(rec.enhancedConfidence.num.a) # Tier(rec.confidence.num.a)
           /\ rec.matchStrength = Tier(rec.confidence.num.a)

\* C30: a recommendation of a parsed result whose folderPath is the
\* folderPath of a supplied profile carries that profile's folderName,
\* whichever alias key held the identifier in the reply.
C30_FolderNameFromProfile ==
    pc = "returned" =>
        \A i \in 1..Len(Recs(parsed.val)) :
            LET rec   == Recs(parsed.val)[i]
                found == FindProfile(folderProfiles, rec.folderPath)
            IN  found # JsUndefined => rec.folderName = found.p.folderName

\* The positions of the markdown children of the batch's folder.
MarkdownPositions ==
    { n \in 1..Len(batch.children) : batch.children[n].extension = "md" }

\* s lists the elements of the set S of numbers once each, in rising order.
ListsInOrder(s, S) ==
    /\ Len(s) = Cardinality(S)
    /\ { s[k] : k \in 1..Len(s) } = S
    /\ \A k \in 1..Len(s) - 1 : s[k] < s[k + 1]

Vec(v) == JsArray([i \in 1..Len(v) |-> JsNumber(Int2Real(v[i]))])

\* The stores whose first entry cannot be parsed and whose second entry is
\* the source "a md" with vector (1, 1).
BadThenGoodTexts ==
    { t \in StoreTextsA :
        \E junk \in { Entry(SmartSourcesPrefix \o NoteA,
                            << "{", "o", "o", "p", "s", "}" >>),
                      JsonString(SmartSourcesPrefix \o NoteA)
                        \o << ":", " ", "{", Quote, "x", Quote, ":", "{", "\n" >> } :
            t = junk \o SourceEntry(NoteASpace, << 1, 1 >>) }

\* C21: a lookup that finds its store file already loaded is served from
\* the memoized parse without reading the file; an entry that cannot be
\* parsed does not keep the entries after it from being served, and the
\* content of one store does not keep another store from being served.
C21_StoreParsedOnce ==
    ( lookup.op = "getFileEmbedding" /\ lookup.available ) =>
        LET name == pathToAjsonFileName(lookup.file)
        IN  /\ lookup.cached =>
                 /\ ~lookup.read
                 /\ name \in DOMAIN ajsonCache =>
                      lookup.out = Returned(extractEmbeddingFromAjson(
                                                ajsonCache[name], lookup.file))
            /\ ( /\ lookup.file = NoteASpace
                 /\ name \in DOMAIN disk
                 /\ disk[name] \in BadThenGoodTexts )
               => lookup.out = Returned(Vec(<< 1, 1 >>))
            /\ ( lookup.file = NoteB /\ name \in DOMAIN disk )
               => lookup.out = Returned(Vec(<< 0, -1 >>))

\* The second lookup, for "a md", was served from the store that the first
\* lookup, for "a.md", had loaded: one read, and the entry after the
\* unparsable one was served.
C21_Witness ==
    /\ lookup.n = 2
    /\ lookup.op = "getFileEmbedding"
    /\ lookup.file = NoteASpace
    /\ lookup.cached
    /\ ~lookup.read
    /\ reads = 1
    /\ disk[pathToAjsonFileName(NoteASpace)] \in BadThenGoodTexts
    /\ lookup.out = Returned(Vec(<< 1, 1 >>))

\* What the vault holds for the two notes, read off the construction of
\* the disk.
HeldBy(filePath) ==
    LET vs == CHOOSE pair \in VectorPairs :
                 \A k \in 1..2 :
                    LET note == IF k = 1 THEN Note1 ELSE Note2
                        name == pathToAjsonFileName(note)
                    IN  IF pair[k].kind = "no file" THEN name \notin DOMAIN disk
                        ELSE /\ name \in DOMAIN disk
                             /\ disk[name] = StoreOf(note, pair[k])
    IN  IF filePath = Note1 THEN vs[1] ELSE vs[2]

\* The vectors of the members of a folder that have a non-empty vector, in
\* the order of the members.
RECURSIVE MemberVectors(_, _)
MemberVectors(files, n) ==
    IF n = 0 THEN << >>
    ELSE MemberVectors(files, n - 1)
         \o (IF HeldBy(files[n]).kind = "vector" /\ Len(HeldBy(files[n]).v) > 0
             THEN << HeldBy(files[n]).v >> ELSE << >>)

\* The componentwise arithmetic mean of vectors of one dimension.
MeanVector(vectors) ==
    JsArray([i \in 1..Len(vectors[1]) |->
                JsNumber(Rat(SumTo([k \in 1..Len(vectors) |-> vectors[k][i]],
                                   Len(vectors)),
                             Len(vectors)))])

\* C22: a centroid that was computed is the componentwise mean of the
\* vectors of the members that have one, and null when no member has one;
\* two computations for the same folder give the same vector.
C22_CentroidIsMean ==
    /\ \A t \in Tasks :
          ( tasks[t].pc = "done" /\ tasks[t].computed ) =>
             LET vectors == MemberVectors(FilesOf(tasks[t].folder),
                                          Len(FilesOf(tasks[t].folder)))
             IN  /\ Len(vectors) = 0 => tasks[t].out = JsNull
                 /\ ( /\ Len(vectors) > 0
                      /\ \A k \in 1..Len(vectors) :
                            Len(vectors[k]) = Len(vectors[1]) )
                    => tasks[t].out = MeanVector(vectors)
    /\ \A t, u \in Tasks :
          ( /\ tasks[t].pc = "done" /\ tasks[t].computed
            /\ tasks[u].pc = "done" /\ tasks[u].computed
            /\ tasks[t].folder = tasks[u].folder )
          => tasks[t].out = tasks[u].out

\* Both calls computed the centroid of the folder whose members hold
\* (1, 0) and (0, 1), and both got (1/2, 1/2).
C22_Witness ==
    /\ HeldBy(Note1) = Holds(<< 1, 0 >>)
    /\ HeldBy(Note2) = Holds(<< 0, 1 >>)
    /\ \A t \in Tasks :
          /\ tasks[t].pc = "done"
          /\ tasks[t].computed
          /\ tasks[t].folder = FolderF
          /\ tasks[t].out = JsArray(<< JsNumber(Half), JsNumber(Half) >>)

\* C23: a centroid call for a folder whose centroid was computed returns
\* the cached vector without fetching any member embedding; the cache keeps
\* the vector until clearCache, and the first call for the folder after
\* clearCache computes the centroid again.
C23_CentroidCachedUntilCleared ==
    [][ /\ \A t \in Tasks :
           \* a call made while the folder is cached ends at once with the
           \* cached vector
           ( /\ tasks[t].pc \in { "idle", "done" }
             /\ tasks'[t] # tasks[t]
             /\ centroidCalls' = centroidCalls + 1
             /\ isAvailable )
           => IF tasks'[t].folder \in DOMAIN folderCentroids
              THEN /\ tasks'[t].pc = "done"
                   /\ ~tasks'[t].computed
                   /\ tasks'[t].out = folderCentroids[tasks'[t].folder]
                   /\ reads' = reads
              ELSE /\ tasks'[t].pc = "loop"
                   /\ tasks'[t].computed
        \* an entry stays as it is unless clearCache runs or a computation
        \* for its folder returns
        /\ \A folder \in DOMAIN folderCentroids :
              \/ /\ folder \in DOMAIN folderCentroids'
                 /\ \/ folderCentroids'[folder] = folderCentroids[folder]
                    \/ \E t \in Tasks : /\ tasks[t].pc = "loop"
                                        /\ tasks'[t].pc = "done"
                                        /\ tasks[t].folder = folder
              \/ folderCentroids' = << >> /\ ajsonCache' = << >>
        \* the first call for a folder after clearCache computes
        /\ \A t \in Tasks :
              ( /\ tasks[t].pc \in { "idle", "done" }
                /\ tasks'[t] # tasks[t]
                /\ centroidCalls' = centroidCalls + 1
                /\ isAvailable
                /\ tasks'[t].folder \in invalidated )
              => tasks'[t].computed
      ]_vars

\* The cosine of two vectors of one dimension: 1 for identical vectors,
\* the normalised dot product for vectors that are not zero.
PairCosine(u, v) ==
    IF u = v THEN One ELSE Real(0, Dot(u, v), Dot(u, u) * Dot(v, v), 1)

\* C24: calculateCoherence returns 0.7 when the service is not usable or
\* fewer than two members have a non-empty vector, and otherwise the mean
\* cosine over the pairs of member vectors: 1 for two identical vectors.
C24_CoherenceDefaultOrMean ==
    coherenceCall.n > 0 =>
        LET vectors == MemberVectors(coherenceCall.files, Len(coherenceCall.files))
        IN  IF ~coherenceCall.available \/ Len(vectors) < 2
            THEN coherenceCall.out = DefaultCoherence
            ELSE \* two members
                 ( /\ Len(vectors[1]) = Len(vectors[2])
                   /\ \/ vectors[1] = vectors[2]
                      \/ Dot(vectors[1], vectors[1]) > 0
                         /\ Dot(vectors[2], vectors[2]) > 0 )
                 => coherenceCall.out = PairCosine(vectors[1], vectors[2])

\* C25: the coherence computed for a folder lies in [0, 1].
C25_CoherenceInUnitInterval ==
    coherenceCall.n > 0 =>
        /\ RLeq(Zero, coherenceCall.out)
        /\ RLeq(coherenceCall.out, One)

\* C26: computations of the centroid of one folder that passed the cache
\* check return the same vector, a returning computation leaves exactly its
\* vector in the cache, and the entry of the folder equals the vector that
\* each of them returned, in whichever order they wrote it.
C26_ConcurrentCentroidsAgree ==
    /\ [](\A t, u \in Tasks :
            ( /\ tasks[t].pc = "done" /\ tasks[t].computed
              /\ tasks[u].pc = "done" /\ tasks[u].computed
              /\ tasks[t].folder = tasks[u].folder )
            => /\ tasks[t].out = tasks[u].out
               /\ tasks[t].folder \in DOMAIN folderCentroids
                  => folderCentroids[tasks[t].folder] = tasks[t].out)
    /\ [][\A t \in Tasks :
            ( /\ tasks[t].pc = "loop"
              /\ tasks'[t].pc = "done"
              /\ tasks'[t].out # JsNull )
            => /\ tasks'[t].folder \in DOMAIN folderCentroids'
               /\ folderCentroids'[tasks'[t].folder] = tasks'[t].out]_vars

\* Both calls for the folder of (1, 0) and (0, 1) passed the cache check
\* before either wrote: the two stores were read once each, so no clearCache
\* separated the calls.  Both returned (1/2, 1/2) and the cache holds it.
C26_Witness ==
    /\ HeldBy(Note1) = Holds(<< 1, 0 >>)
    /\ HeldBy(Note2) = Holds(<< 0, 1 >>)
    /\ reads = 2
    /\ \A t \in Tasks :
          /\ tasks[t].pc = "done"
          /\ tasks[t].computed
          /\ tasks[t].folder = FolderF
          /\ tasks[t].out = JsArray(<< JsNumber(Half), JsNumber(Half) >>)
    /\ FolderF \in DOMAIN folderCentroids
    /\ folderCentroids[FolderF] = JsArray(<< JsNumber(Half), JsNumber(Half) >>)

\* C28: the centroid cache holds no entry computed from embeddings that
\* were loaded before a clearCache.
C28_InvalidationComplete ==
    \A folder \in DOMAIN folderCentroids : folder \notin tainted

=============================================================================
